---- MODULE Spec2Model ----
(***************************************************************************)
(* Retrying unique-resource creation of src/utilities/endpoint_naming.py:  *)
(* create_endpoint_with_cleanup_retry and create_deployment_with_retry,    *)
(* with the name generators they fall back to.  A Python string is a       *)
(* sequence of one-character strings.                                      *)
(***************************************************************************)
EXTENDS Integers, Sequences, FiniteSets, TLC

\* ------------------------------------------------------------------ bounds

\* Largest max_retries a call is made with.
MaxRetriesBound == 3

\* Largest max_retries of the calls that draw from every error message.
MaxClassifyRetries == 1

\* Values of max_retries a call is made with (a negative budget skips the loop).
RetryBudgets == -1..MaxRetriesBound

\* Longest string, of every string over the alphabet, validated as a name.
MaxNameLen == 4

\* Longest string, of every string over the alphabet, used as a base name.
MaxBaseLen == 2

\* Largest max_length a generator is called with.
MaxLengthBound == 33

\* Archive directories created in a run.
MaxArchives == 7

\* Seconds of wall clock time a run lasts.
MaxSecond == 3

\* ----------------------------------------------------------------- strings

UpperLetters == <<"A","B","C","D","E","F","G","H","I","J","K","L","M","N","O","P","Q","R","S","T","U","V","W","X","Y","Z">>

LowerLetters == <<"a","b","c","d","e","f","g","h","i","j","k","l","m","n","o","p","q","r","s","t","u","v","w","x","y","z">>

Digits == <<"0","1","2","3","4","5","6","7","8","9">>

\* str.lower() on one character.
LowerChar(c) ==
    IF \E i \in 1..26 : UpperLetters[i] = c
    THEN LowerLetters[CHOOSE i \in 1..26 : UpperLetters[i] = c]
    ELSE c

\* str.lower()
Lower(s) == [i \in 1..Len(s) |-> LowerChar(s[i])]

\* str.replace("_", "-")
ReplaceUnderscore(s) == [i \in 1..Len(s) |-> IF s[i] = "_" THEN "-" ELSE s[i]]

\* Python's `p in s` on strings.
Contains(s, p) ==
    \E i \in 1..(Len(s) - Len(p) + 1) : SubSeq(s, i, i + Len(p) - 1) = p

\* Python's s[:n] for n >= 0.
Prefix(s, n) == SubSeq(s, 1, IF n < Len(s) THEN n ELSE Len(s))

\* str(n) for an int n >= 0.
RECURSIVE Str(_)
Str(n) == IF n < 10 THEN <<Digits[n + 1]>> ELSE Str(n \div 10) \o <<Digits[(n % 10) + 1]>>

\* "%02d" as strftime prints a month, day, hour or minute.
Pad2(n) == <<Digits[(n \div 10) + 1], Digits[(n % 10) + 1]>>

\* datetime.now().strftime("%m%d-%H%M")
StrftimeEndpoint(now) == Pad2(now.month) \o Pad2(now.day) \o <<"-">> \o Pad2(now.hour) \o Pad2(now.minute)

\* datetime.now().strftime("%m%d%H%M")
StrftimeDeployment(now) == Pad2(now.month) \o Pad2(now.day) \o Pad2(now.hour) \o Pad2(now.minute)

\* ------------------------------------------------------- the environment

\* Values datetime.datetime.now() returns.
Moments ==
    { [month |-> 1, day |-> 1, hour |-> 0, minute |-> 0],
      [month |-> 11, day |-> 3, hour |-> 11, minute |-> 36] }

\* Values time.time() returns, as whole seconds.
Clock == {7, 21234}

\* Leading characters of str(uuid.uuid4()).
Uuids == { <<"a","b","c","1","2","3","e","f">>, <<"0","f","9","e","8","d","7","c">> }

\* ------------------------------------------------------- name generation

\* Fault: suffix_length counted without the two hyphens.
generate_unique_endpoint_name_NoHyphens(base_name_in, max_length, now, u1, u2) ==
    LET base_name == ReplaceUnderscore(Lower(base_name_in))
        timestamp == StrftimeEndpoint(now)
        unique_id == Prefix(u1, 6)
        candidate_name == base_name \o <<"-">> \o timestamp \o <<"-">> \o unique_id
        suffix_length == Len(timestamp) + Len(unique_id)
        available_base_length == max_length - suffix_length
    IN  IF Len(candidate_name) > max_length
        THEN IF available_base_length < 3
             THEN <<"p","p">> \o <<"-">> \o timestamp \o <<"-">> \o Prefix(u2, 4)
             ELSE Prefix(base_name, available_base_length) \o <<"-">> \o timestamp \o <<"-">> \o unique_id
        ELSE candidate_name

\* generate_unique_endpoint_name(base_name, max_length); u1 and u2 are the two
\* uuid4 draws (the second is made only on the "pp" path).
generate_unique_endpoint_name(base_name_in, max_length, now, u1, u2) ==
    LET base_name == ReplaceUnderscore(Lower(base_name_in))
        timestamp == StrftimeEndpoint(now)
        unique_id == Prefix(u1, 6)
        candidate_name == base_name \o <<"-">> \o timestamp \o <<"-">> \o unique_id
        suffix_length == Len(timestamp) + Len(unique_id) + 2
        available_base_length == max_length - suffix_length
    IN  IF Len(candidate_name) > max_length
        THEN IF available_base_length < 3
             THEN <<"p","p">> \o <<"-">> \o timestamp \o <<"-">> \o Prefix(u2, 4)
             ELSE Prefix(base_name, available_base_length) \o <<"-">> \o timestamp \o <<"-">> \o unique_id
        ELSE candidate_name

\* Fault: the abbreviated name returned without the cut to max_length.
generate_unique_deployment_name_Uncut(base_name_in, max_length, now, u1) ==
    LET base_name == ReplaceUnderscore(Lower(base_name_in))
        timestamp == StrftimeDeployment(now)
        unique_id == Prefix(u1, 4)
        candidate_name == base_name \o <<"-">> \o timestamp \o <<"-">> \o unique_id
        abbreviated == <<"p","p","-","d","e","p">> \o <<"-">> \o timestamp \o <<"-">> \o unique_id
    IN  IF Len(candidate_name) > max_length
        THEN abbreviated
        ELSE candidate_name

\* generate_unique_deployment_name(base_name, max_length)
generate_unique_deployment_name(base_name_in, max_length, now, u1) ==
    LET base_name == ReplaceUnderscore(Lower(base_name_in))
        timestamp == StrftimeDeployment(now)
        unique_id == Prefix(u1, 4)
        candidate_name == base_name \o <<"-">> \o timestamp \o <<"-">> \o unique_id
        abbreviated == <<"p","p","-","d","e","p">> \o <<"-">> \o timestamp \o <<"-">> \o unique_id
    IN  IF Len(candidate_name) > max_length
        THEN IF Len(abbreviated) > max_length
             THEN Prefix(abbreviated, max_length)
             ELSE abbreviated
        ELSE candidate_name

\* -------------------------------------------------------- name validation

\* The characters of a string.
Chars(s) == {s[i] : i \in 1..Len(s)}

\* str.isalnum() on one ASCII character.
IsAlnum(c) == c \in Chars(LowerLetters) \cup Chars(UpperLetters) \cup Chars(Digits)

\* The character class [a-z0-9-].
NameClass == Chars(LowerLetters) \cup Chars(Digits) \cup {"-"}

\* Fault: the pattern compiled with re.IGNORECASE.
MatchesNamePattern_IgnoreCase(name) ==
    /\ name # <<>>
    /\ \A i \in 1..Len(name) : LowerChar(name[i]) \in NameClass

\* re.match(r'^[a-z0-9-]+$', name): one or more characters of the class, then
\* the end of the string, which $ also finds just before a last newline.
MatchesNamePattern(name) ==
    LET body == IF name # <<>> /\ name[Len(name)] = "\n"
                THEN SubSeq(name, 1, Len(name) - 1)
                ELSE name
    IN  /\ body # <<>>
        /\ \A i \in 1..Len(body) : body[i] \in NameClass

\* Python's None, as the error_msg of a valid name.
None == "None"

\* Fault: the character-set check made before the first-and-last check.
validate_azure_ml_name_CharsetFirst(name, name_type) ==
    IF name = <<>>
    THEN [is_valid |-> FALSE, error_msg |-> name_type \o " name cannot be empty"]
    ELSE IF Len(name) < 3
    THEN [is_valid |-> FALSE,
          error_msg |-> name_type \o " name must be at least 3 characters long"]
    ELSE IF Len(name) > 32
    THEN [is_valid |-> FALSE,
          error_msg |-> name_type \o " name must be 32 characters or less"]
    ELSE IF ~MatchesNamePattern(name)
    THEN [is_valid |-> FALSE,
          error_msg |-> name_type
               \o " name can only contain lowercase letters, numbers, and hyphens"]
    ELSE IF ~IsAlnum(name[1]) \/ ~IsAlnum(name[Len(name)])
    THEN [is_valid |-> FALSE,
          error_msg |-> name_type \o " name must start and end with alphanumeric character"]
    ELSE IF Contains(name, <<"-","-">>)
    THEN [is_valid |-> FALSE,
          error_msg |-> name_type \o " name cannot contain consecutive hyphens"]
    ELSE [is_valid |-> TRUE, error_msg |-> None]

\* validate_azure_ml_name(name, name_type): the (is_valid, error_msg) pair.
validate_azure_ml_name(name, name_type) ==
    IF name = <<>>
    THEN [is_valid |-> FALSE, error_msg |-> name_type \o " name cannot be empty"]
    ELSE IF Len(name) < 3
    THEN [is_valid |-> FALSE,
          error_msg |-> name_type \o " name must be at least 3 characters long"]
    ELSE IF Len(name) > 32
    THEN [is_valid |-> FALSE,
          error_msg |-> name_type \o " name must be 32 characters or less"]
    ELSE IF ~IsAlnum(name[1]) \/ ~IsAlnum(name[Len(name)])
    THEN [is_valid |-> FALSE,
          error_msg |-> name_type \o " name must start and end with alphanumeric character"]
    ELSE IF ~MatchesNamePattern(name)
    THEN [is_valid |-> FALSE,
          error_msg |-> name_type
               \o " name can only contain lowercase letters, numbers, and hyphens"]
    ELSE IF Contains(name, <<"-","-">>)
    THEN [is_valid |-> FALSE,
          error_msg |-> name_type \o " name cannot contain consecutive hyphens"]
    ELSE [is_valid |-> TRUE, error_msg |-> None]

\* ------------------------------------------------------- the retry policy

\* Fault: "already exists" listed without the word "endpoint".
endpoint_retryable_errors_Broad ==
    { <<"h","a","s"," ","n","o","t"," ","b","e","e","n"," ","c","r","e","a","t","e","d"," ","s","u","c","c","e","s","s","f","u","l","l","y">>,
      <<"e","n","d","p","o","i","n","t"," ","i","s"," ","b","e","i","n","g"," ","d","e","l","e","t","e","d">>,
      <<"a","l","r","e","a","d","y"," ","e","x","i","s","t","s">>,
      <<"p","r","o","v","i","s","i","o","n","i","n","g"," ","f","a","i","l","e","d">>,
      <<"r","e","s","o","u","r","c","e"," ","c","o","n","f","l","i","c","t">>,
      <<"t","i","m","e","o","u","t">> }

\* retryable_errors of create_endpoint_with_cleanup_retry
endpoint_retryable_errors ==
    { <<"h","a","s"," ","n","o","t"," ","b","e","e","n"," ","c","r","e","a","t","e","d"," ","s","u","c","c","e","s","s","f","u","l","l","y">>,
      <<"e","n","d","p","o","i","n","t"," ","i","s"," ","b","e","i","n","g"," ","d","e","l","e","t","e","d">>,
      <<"e","n","d","p","o","i","n","t"," ","a","l","r","e","a","d","y"," ","e","x","i","s","t","s">>,
      <<"p","r","o","v","i","s","i","o","n","i","n","g"," ","f","a","i","l","e","d">>,
      <<"r","e","s","o","u","r","c","e"," ","c","o","n","f","l","i","c","t">>,
      <<"t","i","m","e","o","u","t">> }

\* Fault: "image build failed" left out of the list.
deployment_retryable_errors_Short ==
    { <<"d","e","p","l","o","y","m","e","n","t"," ","f","a","i","l","e","d">>,
      <<"t","i","m","e","o","u","t">>,
      <<"r","e","s","o","u","r","c","e"," ","t","e","m","p","o","r","a","r","i","l","y"," ","u","n","a","v","a","i","l","a","b","l","e">>,
      <<"p","r","o","v","i","s","i","o","n","i","n","g"," ","f","a","i","l","e","d">> }

\* retryable_errors of create_deployment_with_retry
deployment_retryable_errors ==
    { <<"d","e","p","l","o","y","m","e","n","t"," ","f","a","i","l","e","d">>,
      <<"i","m","a","g","e"," ","b","u","i","l","d"," ","f","a","i","l","e","d">>,
      <<"t","i","m","e","o","u","t">>,
      <<"r","e","s","o","u","r","c","e"," ","t","e","m","p","o","r","a","r","i","l","y"," ","u","n","a","v","a","i","l","a","b","l","e">>,
      <<"p","r","o","v","i","s","i","o","n","i","n","g"," ","f","a","i","l","e","d">> }

\* is_retryable = any(err in error_msg for err in retryable_errors), with
\* error_msg = str(e).lower()
endpoint_is_retryable(msg) ==
    LET error_msg == Lower(msg)
    IN  \E err \in endpoint_retryable_errors : Contains(error_msg, err)

deployment_is_retryable(msg) ==
    LET error_msg == Lower(msg)
    IN  \E err \in deployment_retryable_errors : Contains(error_msg, err)

\* Fault: the loop test written with < instead of <=.
LoopCondition_Strict(rc, mr) == rc < mr

\* while retry_count <= max_retries
LoopCondition(rc, mr) == rc <= mr

\* Fault: the budget is not looked at, a retryable error is never raised.
ShouldRaise_FatalOnly(is_retryable, rc, mr) == ~is_retryable

\* Fault: the budget test written with > instead of >=.
ShouldRaise_Late(is_retryable, rc, mr) == ~is_retryable \/ rc > mr

\* Fault: the classification left out of the test.
ShouldRaise_BudgetOnly(is_retryable, rc, mr) == rc >= mr

\* if not is_retryable or retry_count >= max_retries: raise e
ShouldRaise(is_retryable, rc, mr) == ~is_retryable \/ rc >= mr

\* Fault: the wait and the rename skipped.
ShouldWait_Never(rc, mr) == FALSE

\* if retry_count < max_retries: (sleep and rename)
ShouldWait(rc, mr) == rc < mr

\* Fault: the increment left out.
NextRetryCount_Stuck(rc) == rc

\* retry_count += 1
NextRetryCount(rc) == rc + 1

\* Fault: the config keeps its name on a retry.
endpoint_retry_name_Same(original, rc, t, now, u1, u2) == original

\* The name create_endpoint_with_cleanup_retry gives the config for a retry.
endpoint_retry_name(original, rc, t, now, u1, u2) ==
    LET retry_suffix == <<"r","e","t","r","y">> \o Str(rc + 1) \o <<"-">> \o Str(t % 10000)
    IN  IF Len(original) + Len(retry_suffix) + 1 <= 32
        THEN original \o <<"-">> \o retry_suffix
        ELSE generate_unique_endpoint_name(<<"p","p","-","r","e","t","r","y">>, 32, now, u1, u2)

\* The name create_deployment_with_retry gives the config for a retry.
deployment_retry_name(original, rc, t, now, u1) ==
    LET retry_suffix == <<"r">> \o Str(rc + 1) \o <<"-">> \o Str(t % 1000)
    IN  IF Len(original) + Len(retry_suffix) + 1 <= 32
        THEN original \o <<"-">> \o retry_suffix
        ELSE generate_unique_deployment_name(<<"p","p","-","d","e","p","-","r","e","t","r","y">>, 32, now, u1)

\* ---------------------------------------------------------------- inputs

\* Names a caller passes in endpoint_config.name.
EndpointNames ==
    { <<"p","p","-","1","1","0","3","-","1","1","3","6","-","a","b","c","1","2","3">>,
      <<"p","u","r","c","h","a","s","e","-","p","r","e","d","i","c","t","o","r","-","e","p">>,
      <<"p","p","-","r","e","t","r","y","-","1","1","0","3","-","1","1","3","6","-","a","b","c","1","2","3">> }

\* Names a caller passes in deployment_config.name.
DeploymentNames ==
    { <<"p","p","-","d","e","p","-","1","1","0","3","1","1","3","6","-","a","b","c","d">>,
      <<"p","p","-","d","e","p","-","r","e","t","r","y","-","1","1","0","3","1","1","3","6","-","a","b","c","d">> }

\* Messages of the exceptions the cloud create call raises.
CoreErrors ==
    { <<"O","p","e","r","a","t","i","o","n"," ","T","i","m","e","o","u","t">>,
      <<"E","n","d","p","o","i","n","t"," ","a","l","r","e","a","d","y"," ","e","x","i","s","t","s">>,
      <<"R","e","s","o","u","r","c","e"," ","a","l","r","e","a","d","y"," ","e","x","i","s","t","s">>,
      <<"D","e","p","l","o","y","m","e","n","t"," ","f","a","i","l","e","d">>,
      <<"Q","u","o","t","a"," ","e","x","c","e","e","d","e","d">> }

\* Messages that between them hold every pattern of both lists, and some
\* that hold none.
AllErrors ==
    { <<"E","n","d","p","o","i","n","t"," ","h","a","s"," ","n","o","t"," ","b","e","e","n"," ","c","r","e","a","t","e","d"," ","s","u","c","c","e","s","s","f","u","l","l","y">>,
      <<"E","n","d","p","o","i","n","t"," ","i","s"," ","b","e","i","n","g"," ","d","e","l","e","t","e","d">>,
      <<"E","n","d","p","o","i","n","t"," ","a","l","r","e","a","d","y"," ","e","x","i","s","t","s">>,
      <<"R","e","s","o","u","r","c","e"," ","a","l","r","e","a","d","y"," ","e","x","i","s","t","s">>,
      <<"P","r","o","v","i","s","i","o","n","i","n","g"," ","f","a","i","l","e","d">>,
      <<"R","e","s","o","u","r","c","e"," ","c","o","n","f","l","i","c","t">>,
      <<"O","p","e","r","a","t","i","o","n"," ","T","i","m","e","o","u","t">>,
      <<"D","e","p","l","o","y","m","e","n","t"," ","f","a","i","l","e","d">>,
      <<"I","m","a","g","e"," ","b","u","i","l","d"," ","f","a","i","l","e","d">>,
      <<"R","e","s","o","u","r","c","e"," ","t","e","m","p","o","r","a","r","i","l","y"," ","u","n","a","v","a","i","l","a","b","l","e">>,
      <<"Q","u","o","t","a"," ","e","x","c","e","e","d","e","d">>,
      <<"T","i","m","e","d"," ","o","u","t">> }

\* Messages of the exceptions the cleanup delete raises.
DeleteErrors == { <<"N","o","t"," ","f","o","u","n","d">>, <<"O","p","e","r","a","t","i","o","n"," ","T","i","m","e","o","u","t">> }

\* Characters of the names tried: a lower-case letter, a digit, a hyphen, an
\* upper-case letter, an underscore and a newline.
NameAlphabet == {"a", "1", "-", "A", "_", "\n"}

\* Every string over NameAlphabet of length at most n.
RECURSIVE StringsUpTo(_)
StringsUpTo(n) ==
    IF n = 0 THEN {<<>>}
    ELSE LET shorter == StringsUpTo(n - 1)
         IN  shorter \cup {Append(s, c) : s \in shorter, c \in NameAlphabet}

\* s made n characters long by a run of "x" after its first character.
Stretch(s, n) ==
    <<s[1]>> \o [i \in 1..(n - Len(s)) |-> "x"] \o SubSeq(s, 2, Len(s))

\* Names validate_azure_ml_name is called with: every short string, the same
\* strings stretched to the lengths around the limit of 32, and the names of
\* the examples.
ValidateNames ==
    LET short == StringsUpTo(MaxNameLen)
    IN  short
          \cup {Stretch(s, n) : s \in {r \in short : Len(r) >= 2}, n \in {31, 32, 33}}
          \cup { <<"a","b">>, <<"a","-","-","b">>, <<"A","b","c","1","2","3">>, <<"a","b","c","1","2","3">>,
                 <<"p","u","r","c","h","a","s","e","-","p","r","e","d","i","c","-","1","1","0","3","-","1","1","3","6","-","a","b","c","1","2","3">> }

\* Base names the generators are called with.
BaseNames ==
    StringsUpTo(MaxBaseLen)
      \cup { <<"p","u","r","c","h","a","s","e","-","p","r","e","d","i","c","t","o","r">>, <<"p","u","r","c","h","a","s","e","-","p","r","e","d","i","c","t","o","r","-","d","e","p","l","o","y","m","e","n","t">>,
             <<"p","u","r","c","h","a","s","e","_","p","r","e","d","i","c","t","o","r">>, <<"P","u","r","c","h","a","s","e">>, <<"p","p">>, <<"p","p","-","d","e","p">>, <<"p","p","-","a","c","i">>,
             <<"p","p","-","r","e","t","r","y">>, <<"p","p","-","d","e","p","-","r","e","t","r","y">>, <<"a","b","c","d","e","f","g","h","i","j","k","l","m","n","-","o","p","q">> }

\* Values of max_length the generators are called with.
MaxLengths == 3..MaxLengthBound

\* ----------------------------------------------------------------- state

VARIABLES
    fn,             \* which retry function the call is of
    max_retries,    \* its max_retries argument
    original_name,  \* original_name = config.name at entry
    retry_count,    \* retry_count
    config_name,    \* the caller's config object's name field
    pc,             \* "loop", "delete", "sleep", "returned", "raised"
    attempts,       \* the create calls made: outcome and message of each
    submitted_name, \* the name the latest create call was made with
    deleted_name,   \* the name the latest cleanup delete was called with
    generated_name, \* the name the latest retry generated
    cleanup_error,  \* the last exception the cleanup delete raised
    trace,          \* the calls made, in order: create, delete, sleep, rename
    result,         \* the handle returned to the caller
    raised,         \* the exception raised to the caller
    config_settings,    \* the caller's config object's fields other than name
    submitted_settings, \* those fields as the latest create call was given them
    workspace,      \* names of the endpoints in the workspace this call did not create
    removed,        \* names of such endpoints a cleanup delete of this call removed
    naming_fn,      \* which naming function is called, "none" in a retry call
    naming_pc,      \* "idle", "called", "generated", "validated"
    arg_name,       \* its name (validate) or base_name (generators) argument
    arg_max_length, \* the max_length argument of a generator
    unique_name,    \* the name a generator returned
    validation,     \* the (is_valid, error_msg) pair validate returned
    script,         \* which deployment script runs, "none" outside a script
    step,           \* the step the script is at
    configured,     \* config['deployment']: endpoint_name and deployment_name
    unique_endpoint_name,   \* the script's unique_endpoint_name
    unique_deployment_name, \* the script's unique_deployment_name
    endpoint,       \* the handle create_endpoint_with_cleanup_retry returned
    deployment,     \* the handle create_deployment_with_retry returned
    actual,         \* the actual endpoint and deployment names the script keeps
    calls,          \* the cloud calls made after the creations, in order
    archives,       \* the directories of server/archives: name and order of creation
    server_files,   \* whether server/ holds score.py and preprocessing.py
    created_count,  \* how many archive directories have been created
    second,         \* seconds of wall clock time passed
    last_clean      \* the last clean_old_archives call: argument, directories before and after

vars ==
    <<fn, max_retries, original_name, retry_count, config_name, pc, attempts,
      submitted_name, deleted_name, generated_name, cleanup_error, trace,
      result, raised, config_settings, submitted_settings, workspace, removed,
      naming_fn, naming_pc, arg_name, arg_max_length, unique_name, validation,
      script, step, configured, unique_endpoint_name, unique_deployment_name,
      endpoint, deployment, actual, calls,
      archives, server_files, created_count, second, last_clean>>

\* The state of a run of one of the deployment scripts.
deployVars ==
    <<script, step, configured, unique_endpoint_name, unique_deployment_name,
      endpoint, deployment, actual, calls>>

\* The state of a call of one of the naming functions.
namingVars ==
    <<naming_fn, naming_pc, arg_name, arg_max_length, unique_name, validation>>

\* No (is_valid, error_msg) pair has been returned.
NoValidation == [is_valid |-> FALSE, error_msg |-> "pending"]

\* A retry call runs with no naming call of its own in progress.
NoNamingCall ==
    /\ naming_fn = "none"
    /\ naming_pc = "idle"
    /\ arg_name = <<>>
    /\ arg_max_length = 0
    /\ unique_name = <<>>
    /\ validation = NoValidation

NoError == [origin |-> "none", attempt |-> 0, msg |-> <<>>]

NoHandle == [name |-> <<>>, attempt |-> 0]

\* The calls are made outside a deployment script.
NoScript ==
    /\ script = "none"
    /\ step = "idle"
    /\ configured = [endpoint_name |-> <<>>, deployment_name |-> <<>>]
    /\ unique_endpoint_name = <<>>
    /\ unique_deployment_name = <<>>
    /\ endpoint = NoHandle
    /\ deployment = NoHandle
    /\ actual = [endpoint_name |-> <<>>, deployment_name |-> <<>>]
    /\ calls = <<>>

\* The state of server/ and of server/archives.
archiveVars == <<archives, server_files, created_count, second, last_clean>>

\* clean_old_archives has not been called.
NoClean == [keep_count |-> -1, before |-> {}, after |-> {}]

\* No server directory yet.
NoArchives ==
    /\ archives = {}
    /\ server_files = FALSE
    /\ created_count = 0
    /\ second = 0
    /\ last_clean = NoClean

\* The exception the create call of attempt k raises.
CreateError(k, msg) == [origin |-> "create", attempt |-> k, msg |-> msg]

\* The exception the cleanup delete after attempt k raises.
DeleteError(k, msg) == [origin |-> "delete", attempt |-> k, msg |-> msg]

\* Exception(f"Failed to create ... after {max_retries + 1} attempts")
ExhaustedError == [origin |-> "exhausted", attempt |-> 0, msg |-> <<>>]

\* The handle the create call of attempt k returns for the name submitted.
Handle(k, name) == [name |-> name, attempt |-> k]

\* No create call has been given a config yet.
NoSettings == [kind |-> "none"]

\* The other fields of a ManagedOnlineEndpoint config.
EndpointSettings ==
    { [kind |-> "endpoint", auth_mode |-> "key",
       description |-> "Purchase predictor model endpoint with unique naming"] }

\* The other fields of a ManagedOnlineDeployment config, for two endpoints.
DeploymentSettings ==
    { [kind |-> "deployment", endpoint_name |-> e,
       model |-> "purchase-predictor-model:1",
       instance_type |-> "Standard_DS2_v2", instance_count |-> 1] :
        e \in { <<"p","p","-","1","1","0","3","-","1","1","3","6","-","a","b","c","1","2","3">>, <<"p","p","-","1","1","0","3","-","1","1","3","6","-","a","b","c","1","2","3","-","r","e","t","r","y","1","-","7">> } }

\* The state on entry to the loop: original_name = config.name, retry_count = 0.
Entry(budgets) ==
    /\ fn \in {"endpoint", "deployment"}
    /\ max_retries \in budgets
    /\ original_name \in (IF fn = "endpoint" THEN EndpointNames ELSE DeploymentNames)
    /\ config_name = original_name
    /\ retry_count = 0
    /\ pc = "loop"
    /\ attempts = <<>>
    /\ submitted_name = <<>>
    /\ deleted_name = <<>>
    /\ generated_name = <<>>
    /\ cleanup_error = NoError
    /\ trace = <<>>
    /\ result = NoHandle
    /\ raised = NoError
    /\ config_settings \in (IF fn = "endpoint" THEN EndpointSettings ELSE DeploymentSettings)
    /\ submitted_settings = NoSettings
    /\ NoNamingCall

\* The workspace holds no endpoint of another caller.
OwnWorkspace ==
    /\ workspace = {}
    /\ removed = {}

Init == Entry(RetryBudgets) /\ OwnWorkspace /\ NoScript /\ NoArchives

\* ---------------------------------------------------------------- actions

\* Fault: the exception is logged and the function returns nothing.
Propagate_Swallowed(e) ==
    /\ pc' = "returned"
    /\ raised' = raised
    /\ result' = result

\* Fault: a new exception wrapping e is raised in its place.
Propagate_Wrapped(e) ==
    /\ pc' = "raised"
    /\ raised' = [origin |-> "wrapper", attempt |-> e.attempt, msg |-> e.msg]
    /\ result' = result

\* raise e: the exception leaves the function.
Propagate(e) ==
    /\ pc' = "raised"
    /\ raised' = e
    /\ result' = result

\* The create call: Attempt(name) is made and its outcome recorded.
Attempted(outcome, msg) ==
    /\ attempts' = Append(attempts, [outcome |-> outcome, msg |-> msg])
    /\ submitted_name' = config_name
    /\ submitted_settings' = config_settings
    /\ trace' = Append(trace, "create")

\* Fault: the config's name is put back to original_name before returning.
EpCreateReturns_Restore ==
    /\ fn = "endpoint"
    /\ pc = "loop"
    /\ LoopCondition(retry_count, max_retries)
    /\ Attempted("ok", <<>>)
    /\ result' = Handle(Len(attempts) + 1, config_name)
    /\ config_name' = original_name
    /\ pc' = "returned"
    /\ UNCHANGED <<fn, max_retries, original_name, retry_count,
                   deleted_name, generated_name, cleanup_error, raised>>
    /\ UNCHANGED config_settings
    /\ UNCHANGED <<workspace, removed>>
    /\ UNCHANGED namingVars
    /\ UNCHANGED deployVars
    /\ UNCHANGED archiveVars

\* result = ml_client.online_endpoints.begin_create_or_update(endpoint_config).result()
\* return result
EpCreateReturns ==
    /\ fn = "endpoint"
    /\ pc = "loop"
    /\ LoopCondition(retry_count, max_retries)
    /\ Attempted("ok", <<>>)
    /\ result' = Handle(Len(attempts) + 1, config_name)
    /\ pc' = "returned"
    /\ UNCHANGED <<fn, max_retries, original_name, retry_count, config_name,
                   deleted_name, generated_name, cleanup_error, raised>>
    /\ UNCHANGED config_settings
    /\ UNCHANGED <<workspace, removed>>
    /\ UNCHANGED namingVars
    /\ UNCHANGED deployVars
    /\ UNCHANGED archiveVars

\* except Exception as e: classify, then raise e or go on to the cleanup.
EpCreateRaises(msg) ==
    /\ fn = "endpoint"
    /\ pc = "loop"
    /\ LoopCondition(retry_count, max_retries)
    /\ Attempted("error", msg)
    /\ IF ShouldRaise(endpoint_is_retryable(msg), retry_count, max_retries)
       THEN Propagate(CreateError(Len(attempts) + 1, msg))
       ELSE /\ pc' = "delete"
            /\ UNCHANGED <<result, raised>>
    /\ UNCHANGED <<fn, max_retries, original_name, retry_count, config_name,
                   deleted_name, generated_name, cleanup_error>>
    /\ UNCHANGED config_settings
    /\ UNCHANGED <<workspace, removed>>
    /\ UNCHANGED namingVars
    /\ UNCHANGED deployVars
    /\ UNCHANGED archiveVars

\* Fault: the cleanup deletes the name the call started with.
EpDeleteReturns_Original ==
    /\ fn = "endpoint"
    /\ pc = "delete"
    /\ deleted_name' = original_name
    /\ trace' = Append(trace, "delete")
    /\ pc' = "sleep"
    /\ UNCHANGED <<fn, max_retries, original_name, retry_count, config_name,
                   attempts, submitted_name, generated_name, cleanup_error,
                   result, raised>>
    /\ UNCHANGED <<config_settings, submitted_settings>>
    /\ workspace' = workspace \ {original_name}
    /\ removed' = removed \cup ({original_name} \cap workspace)
    /\ UNCHANGED namingVars
    /\ UNCHANGED deployVars
    /\ UNCHANGED archiveVars

\* ml_client.online_endpoints.begin_delete(endpoint_config.name).wait() returns.
EpDeleteReturns ==
    /\ fn = "endpoint"
    /\ pc = "delete"
    /\ deleted_name' = config_name
    /\ trace' = Append(trace, "delete")
    /\ pc' = "sleep"
    /\ UNCHANGED <<fn, max_retries, original_name, retry_count, config_name,
                   attempts, submitted_name, generated_name, cleanup_error,
                   result, raised>>
    /\ UNCHANGED <<config_settings, submitted_settings>>
    /\ workspace' = workspace \ {config_name}
    /\ removed' = removed \cup ({config_name} \cap workspace)
    /\ UNCHANGED namingVars
    /\ UNCHANGED deployVars
    /\ UNCHANGED archiveVars

\* Fault: no try/except around the cleanup, its exception leaves the function.
EpDeleteRaises_Abort(msg) ==
    /\ fn = "endpoint"
    /\ pc = "delete"
    /\ deleted_name' = config_name
    /\ trace' = Append(trace, "delete")
    /\ cleanup_error' = DeleteError(Len(attempts), msg)
    /\ Propagate(cleanup_error')
    /\ UNCHANGED <<fn, max_retries, original_name, retry_count, config_name,
                   attempts, submitted_name, generated_name>>
    /\ UNCHANGED <<config_settings, submitted_settings>>
    /\ UNCHANGED <<workspace, removed>>
    /\ UNCHANGED namingVars
    /\ UNCHANGED deployVars
    /\ UNCHANGED archiveVars

\* begin_delete(...).wait() raises: except Exception as cleanup_error: log it.
EpDeleteRaises(msg) ==
    /\ fn = "endpoint"
    /\ pc = "delete"
    /\ deleted_name' = config_name
    /\ trace' = Append(trace, "delete")
    /\ cleanup_error' = DeleteError(Len(attempts), msg)
    /\ pc' = "sleep"
    /\ UNCHANGED <<fn, max_retries, original_name, retry_count, config_name,
                   attempts, submitted_name, generated_name, result, raised>>
    /\ UNCHANGED <<config_settings, submitted_settings>>
    /\ UNCHANGED <<workspace, removed>>
    /\ UNCHANGED namingVars
    /\ UNCHANGED deployVars
    /\ UNCHANGED archiveVars

\* Fault: the retry name built on the config's current name.
EpSleepRename_Accumulate(t, now, u1, u2) ==
    /\ fn = "endpoint"
    /\ pc = "sleep"
    /\ IF ShouldWait(retry_count, max_retries)
       THEN /\ trace' = trace \o <<"sleep", "rename">>
            /\ generated_name' = endpoint_retry_name(config_name, retry_count, t, now, u1, u2)
            /\ config_name' = generated_name'
       ELSE UNCHANGED <<trace, generated_name, config_name>>
    /\ retry_count' = NextRetryCount(retry_count)
    /\ pc' = "loop"
    /\ UNCHANGED <<fn, max_retries, original_name, attempts, submitted_name,
                   deleted_name, cleanup_error, result, raised>>
    /\ UNCHANGED <<config_settings, submitted_settings>>
    /\ UNCHANGED <<workspace, removed>>
    /\ UNCHANGED namingVars
    /\ UNCHANGED deployVars
    /\ UNCHANGED archiveVars

\* if retry_count < max_retries: time.sleep(retry_delay), new name; retry_count += 1
EpSleepRename(t, now, u1, u2) ==
    /\ fn = "endpoint"
    /\ pc = "sleep"
    /\ IF ShouldWait(retry_count, max_retries)
       THEN /\ trace' = trace \o <<"sleep", "rename">>
            /\ generated_name' = endpoint_retry_name(original_name, retry_count, t, now, u1, u2)
            /\ config_name' = generated_name'
       ELSE UNCHANGED <<trace, generated_name, config_name>>
    /\ retry_count' = NextRetryCount(retry_count)
    /\ pc' = "loop"
    /\ UNCHANGED <<fn, max_retries, original_name, attempts, submitted_name,
                   deleted_name, cleanup_error, result, raised>>
    /\ UNCHANGED <<config_settings, submitted_settings>>
    /\ UNCHANGED <<workspace, removed>>
    /\ UNCHANGED namingVars
    /\ UNCHANGED deployVars
    /\ UNCHANGED archiveVars

\* The loop ends: raise Exception("Failed to create endpoint after ... attempts")
EpLoopExit ==
    /\ fn = "endpoint"
    /\ pc = "loop"
    /\ ~LoopCondition(retry_count, max_retries)
    /\ Propagate(ExhaustedError)
    /\ UNCHANGED <<fn, max_retries, original_name, retry_count, config_name,
                   attempts, submitted_name, deleted_name, generated_name,
                   cleanup_error, trace>>
    /\ UNCHANGED <<config_settings, submitted_settings>>
    /\ UNCHANGED <<workspace, removed>>
    /\ UNCHANGED namingVars
    /\ UNCHANGED deployVars
    /\ UNCHANGED archiveVars

\* result = ml_client.online_deployments.begin_create_or_update(deployment_config).result()
\* return result
DepCreateReturns ==
    /\ fn = "deployment"
    /\ pc = "loop"
    /\ LoopCondition(retry_count, max_retries)
    /\ Attempted("ok", <<>>)
    /\ result' = Handle(Len(attempts) + 1, config_name)
    /\ pc' = "returned"
    /\ UNCHANGED <<fn, max_retries, original_name, retry_count, config_name,
                   deleted_name, generated_name, cleanup_error, raised>>
    /\ UNCHANGED config_settings
    /\ UNCHANGED <<workspace, removed>>
    /\ UNCHANGED namingVars
    /\ UNCHANGED deployVars
    /\ UNCHANGED archiveVars

\* Fault: a cleanup delete of the failed deployment added before the wait.
DepCreateRaises_Cleanup(msg) ==
    /\ fn = "deployment"
    /\ pc = "loop"
    /\ LoopCondition(retry_count, max_retries)
    /\ attempts' = Append(attempts, [outcome |-> "error", msg |-> msg])
    /\ submitted_name' = config_name
    /\ submitted_settings' = config_settings
    /\ IF ShouldRaise(deployment_is_retryable(msg), retry_count, max_retries)
       THEN /\ Propagate(CreateError(Len(attempts) + 1, msg))
            /\ trace' = Append(trace, "create")
            /\ UNCHANGED deleted_name
       ELSE /\ pc' = "sleep"
            /\ trace' = trace \o <<"create", "delete">>
            /\ deleted_name' = config_name
            /\ UNCHANGED <<result, raised>>
    /\ UNCHANGED <<fn, max_retries, original_name, retry_count, config_name,
                   generated_name, cleanup_error>>
    /\ UNCHANGED config_settings
    /\ UNCHANGED <<workspace, removed>>
    /\ UNCHANGED namingVars
    /\ UNCHANGED deployVars
    /\ UNCHANGED archiveVars

\* except Exception as e: classify, then raise e or go on to the wait.
DepCreateRaises(msg) ==
    /\ fn = "deployment"
    /\ pc = "loop"
    /\ LoopCondition(retry_count, max_retries)
    /\ Attempted("error", msg)
    /\ IF ShouldRaise(deployment_is_retryable(msg), retry_count, max_retries)
       THEN Propagate(CreateError(Len(attempts) + 1, msg))
       ELSE /\ pc' = "sleep"
            /\ UNCHANGED <<result, raised>>
    /\ UNCHANGED <<fn, max_retries, original_name, retry_count, config_name,
                   deleted_name, generated_name, cleanup_error>>
    /\ UNCHANGED config_settings
    /\ UNCHANGED <<workspace, removed>>
    /\ UNCHANGED namingVars
    /\ UNCHANGED deployVars
    /\ UNCHANGED archiveVars

\* Fault: the retry also points the deployment at an endpoint of the new name.
DepSleepRename_Retarget(t, now, u1) ==
    /\ fn = "deployment"
    /\ pc = "sleep"
    /\ IF ShouldWait(retry_count, max_retries)
       THEN /\ trace' = trace \o <<"sleep", "rename">>
            /\ generated_name' = deployment_retry_name(original_name, retry_count, t, now, u1)
            /\ config_name' = generated_name'
            /\ config_settings' = [config_settings EXCEPT !.endpoint_name = generated_name']
       ELSE UNCHANGED <<trace, generated_name, config_name, config_settings>>
    /\ retry_count' = NextRetryCount(retry_count)
    /\ pc' = "loop"
    /\ UNCHANGED <<fn, max_retries, original_name, attempts, submitted_name,
                   deleted_name, cleanup_error, result, raised>>
    /\ UNCHANGED submitted_settings
    /\ UNCHANGED <<workspace, removed>>
    /\ UNCHANGED namingVars
    /\ UNCHANGED deployVars
    /\ UNCHANGED archiveVars

\* if retry_count < max_retries: time.sleep(retry_delay), new name; retry_count += 1
DepSleepRename(t, now, u1) ==
    /\ fn = "deployment"
    /\ pc = "sleep"
    /\ IF ShouldWait(retry_count, max_retries)
       THEN /\ trace' = trace \o <<"sleep", "rename">>
            /\ generated_name' = deployment_retry_name(original_name, retry_count, t, now, u1)
            /\ config_name' = generated_name'
       ELSE UNCHANGED <<trace, generated_name, config_name>>
    /\ retry_count' = NextRetryCount(retry_count)
    /\ pc' = "loop"
    /\ UNCHANGED <<fn, max_retries, original_name, attempts, submitted_name,
                   deleted_name, cleanup_error, result, raised>>
    /\ UNCHANGED <<config_settings, submitted_settings>>
    /\ UNCHANGED <<workspace, removed>>
    /\ UNCHANGED namingVars
    /\ UNCHANGED deployVars
    /\ UNCHANGED archiveVars

\* The loop ends: raise Exception("Failed to create deployment after ... attempts")
DepLoopExit ==
    /\ fn = "deployment"
    /\ pc = "loop"
    /\ ~LoopCondition(retry_count, max_retries)
    /\ Propagate(ExhaustedError)
    /\ UNCHANGED <<fn, max_retries, original_name, retry_count, config_name,
                   attempts, submitted_name, deleted_name, generated_name,
                   cleanup_error, trace>>
    /\ UNCHANGED <<config_settings, submitted_settings>>
    /\ UNCHANGED <<workspace, removed>>
    /\ UNCHANGED namingVars
    /\ UNCHANGED deployVars
    /\ UNCHANGED archiveVars

\* One step of a call whose create call raises the messages of `errors`.
Step(errors) ==
    \/ EpCreateReturns
    \/ \E msg \in errors : EpCreateRaises(msg)
    \/ EpDeleteReturns
    \/ \E msg \in DeleteErrors : EpDeleteRaises(msg)
    \/ \E t \in Clock, now \in Moments, u1 \in Uuids, u2 \in Uuids : EpSleepRename(t, now, u1, u2)
    \/ EpLoopExit
    \/ DepCreateReturns
    \/ \E msg \in errors : DepCreateRaises(msg)
    \/ \E t \in Clock, now \in Moments, u1 \in Uuids : DepSleepRename(t, now, u1)
    \/ DepLoopExit

Next == Step(CoreErrors)

Spec == Init /\ [][Next]_vars

\* The same calls when every create, delete and sleep call comes back: a step
\* that can be taken is eventually taken.
SpecLive == Init /\ [][Next]_vars /\ WF_vars(Next)

\* Calls with a small budget, whose create call raises any message of AllErrors.
InitClassify == Entry(-1..MaxClassifyRetries) /\ OwnWorkspace /\ NoScript /\ NoArchives

NextClassify == Step(AllErrors)

SpecClassify == InitClassify /\ [][NextClassify]_vars

\* Calls of create_endpoint_with_cleanup_retry on a workspace shared with
\* other callers: an endpoint of the call's name may exist at entry.
InitCloud ==
    /\ Entry(-1..MaxClassifyRetries)
    /\ workspace \in SUBSET {original_name}
    /\ removed = {}
    /\ NoScript
    /\ NoArchives

\* A concurrent caller creates an endpoint under the name this call is using.
OtherCallerCreates ==
    /\ fn = "endpoint"
    /\ pc \in {"loop", "delete", "sleep"}
    /\ config_name \notin workspace
    /\ workspace' = workspace \cup {config_name}
    /\ UNCHANGED <<fn, max_retries, original_name, retry_count, config_name, pc,
                   attempts, submitted_name, deleted_name, generated_name,
                   cleanup_error, trace, result, raised, config_settings,
                   submitted_settings, removed>>
    /\ UNCHANGED namingVars
    /\ UNCHANGED deployVars
    /\ UNCHANGED archiveVars

NextCloud == Step(CoreErrors) \/ OtherCallerCreates

SpecCloud == InitCloud /\ [][NextCloud]_vars

\* ------------------------------------------------------- naming calls

retryVars ==
    <<fn, max_retries, original_name, retry_count, config_name, pc, attempts,
      submitted_name, deleted_name, generated_name, cleanup_error, trace,
      result, raised, config_settings, submitted_settings, workspace, removed>>

\* A naming call runs with no retry call in progress.
NoRetryCall ==
    /\ fn = "none"
    /\ max_retries = 0
    /\ original_name = <<>>
    /\ config_name = <<>>
    /\ retry_count = 0
    /\ pc = "idle"
    /\ attempts = <<>>
    /\ submitted_name = <<>>
    /\ deleted_name = <<>>
    /\ generated_name = <<>>
    /\ cleanup_error = NoError
    /\ trace = <<>>
    /\ result = NoHandle
    /\ raised = NoError
    /\ config_settings = NoSettings
    /\ submitted_settings = NoSettings
    /\ workspace = {}
    /\ removed = {}

\* A call of validate_azure_ml_name(name) or of a generator(base_name, max_length).
InitNaming ==
    /\ NoRetryCall
    /\ NoScript
    /\ naming_fn \in {"validate_azure_ml_name", "generate_unique_endpoint_name",
                      "generate_unique_deployment_name"}
    /\ naming_pc = "called"
    /\ IF naming_fn = "validate_azure_ml_name"
       THEN /\ arg_name \in ValidateNames
            /\ arg_max_length = 0
       ELSE /\ arg_name \in BaseNames
            /\ arg_max_length \in MaxLengths
    /\ unique_name = <<>>
    /\ validation = NoValidation
    /\ NoArchives

\* validate_azure_ml_name(name) returns.
ValidateReturns ==
    /\ naming_fn = "validate_azure_ml_name"
    /\ naming_pc = "called"
    /\ validation' = validate_azure_ml_name(arg_name, "endpoint")
    /\ naming_pc' = "validated"
    /\ UNCHANGED <<naming_fn, arg_name, arg_max_length, unique_name>>
    /\ UNCHANGED retryVars
    /\ UNCHANGED deployVars
    /\ UNCHANGED archiveVars

\* generate_unique_endpoint_name(base_name, max_length) returns.
EndpointNameReturns(now, u1, u2) ==
    /\ naming_fn = "generate_unique_endpoint_name"
    /\ naming_pc = "called"
    /\ unique_name' = generate_unique_endpoint_name(arg_name, arg_max_length, now, u1, u2)
    /\ naming_pc' = "generated"
    /\ UNCHANGED <<naming_fn, arg_name, arg_max_length, validation>>
    /\ UNCHANGED retryVars
    /\ UNCHANGED deployVars
    /\ UNCHANGED archiveVars

\* generate_unique_deployment_name(base_name, max_length) returns.
DeploymentNameReturns(now, u1) ==
    /\ naming_fn = "generate_unique_deployment_name"
    /\ naming_pc = "called"
    /\ unique_name' = generate_unique_deployment_name(arg_name, arg_max_length, now, u1)
    /\ naming_pc' = "generated"
    /\ UNCHANGED <<naming_fn, arg_name, arg_max_length, validation>>
    /\ UNCHANGED retryVars
    /\ UNCHANGED deployVars
    /\ UNCHANGED archiveVars

\* The caller validates the generated name:
\* validate_azure_ml_name(unique_endpoint_name, "endpoint") and
\* validate_azure_ml_name(unique_deployment_name, "deployment").
GeneratedNameValidated ==
    /\ naming_pc = "generated"
    /\ validation' = validate_azure_ml_name(unique_name,
                         IF naming_fn = "generate_unique_endpoint_name"
                         THEN "endpoint" ELSE "deployment")
    /\ naming_pc' = "validated"
    /\ UNCHANGED <<naming_fn, arg_name, arg_max_length, unique_name>>
    /\ UNCHANGED retryVars
    /\ UNCHANGED deployVars
    /\ UNCHANGED archiveVars

NextNaming ==
    \/ ValidateReturns
    \/ \E now \in Moments, u1 \in Uuids, u2 \in Uuids : EndpointNameReturns(now, u1, u2)
    \/ \E now \in Moments, u1 \in Uuids : DeploymentNameReturns(now, u1)
    \/ GeneratedNameValidated

SpecNaming == InitNaming /\ [][NextNaming]_vars

\* -------------------------------------------------- deployment scripts

\* max_retries=3 of create_endpoint_with_cleanup_retry.
DefaultEndpointRetries == 3

\* max_retries=2 of create_deployment_with_retry.
DefaultDeploymentRetries == 2

\* s.split('-')[0]
SplitFirst(s) ==
    LET hyphens == {i \in 1..Len(s) : s[i] = "-"}
    IN  IF hyphens = {} THEN s
        ELSE SubSeq(s, 1, (CHOOSE i \in hyphens : \A j \in hyphens : i <= j) - 1)

\* What one call of a generator draws: the time and two uuid4 values.
Draws == [now : Moments, u1 : Uuids, u2 : Uuids]

\* Fault: the generated name is used whatever validate_azure_ml_name says.
first_endpoint_name_Unchecked(base, fallback, d, f) ==
    generate_unique_endpoint_name(base, 32, d.now, d.u1, d.u2)

\* The name a script gives the endpoint config: the generated name, or the
\* name generated on the fallback base when validate rejects the first.
first_endpoint_name(base, fallback, d, f) ==
    LET generated == generate_unique_endpoint_name(base, 32, d.now, d.u1, d.u2)
    IN  IF validate_azure_ml_name(generated, "endpoint").is_valid
        THEN generated
        ELSE generate_unique_endpoint_name(fallback, 32, f.now, f.u1, f.u2)

\* The name a script gives the deployment config, in the same way.
first_deployment_name(base, fallback, d, f) ==
    LET generated == generate_unique_deployment_name(base, 32, d.now, d.u1)
    IN  IF validate_azure_ml_name(generated, "deployment").is_valid
        THEN generated
        ELSE generate_unique_deployment_name(fallback, 32, f.now, f.u1)

\* Values of config['deployment'] the scripts run with: the defaults, an
\* endpoint name that starts with a hyphen, one whose 15th character is an
\* underscore, and a deployment name with a dot.
ConfiguredNames ==
    [endpoint_name : { <<"p","u","r","c","h","a","s","e","-","p","r","e","d","i","c","t","o","r","-","e","n","d","p","o","i","n","t">>, <<"-","s","t","a","g","i","n","g">>,
                       <<"p","u","r","c","h","a","s","e","_","m","o","d","e","l","_","e","n","d","p","o","i","n","t">> },
     deployment_name : { <<"p","u","r","c","h","a","s","e","-","p","r","e","d","i","c","t","o","r","-","d","e","p","l","o","y","m","e","n","t">>, <<"b","l","u","e",".","g","r","e","e","n">> }]

\* Messages of the create errors met in a script run: one retryable for both
\* functions, one fatal.
ScriptErrors == { <<"O","p","e","r","a","t","i","o","n"," ","T","i","m","e","o","u","t">>, <<"Q","u","o","t","a"," ","e","x","c","e","e","d","e","d">> }

\* What the retries of a script run draw.
ScriptClock == {21234}

ScriptDraws == [now : {[month |-> 11, day |-> 3, hour |-> 11, minute |-> 36]},
                u1 : { <<"a","b","c","1","2","3","e","f">> }, u2 : { <<"a","b","c","1","2","3","e","f">> }]

\* A script starts: deploy.py and deploy_managed_endpoint.py with the
\* endpoint, deploy_aci.py with the environment.
InitDeploy ==
    /\ NoRetryCall
    /\ NoNamingCall
    /\ script \in {"deploy", "deploy_managed_endpoint", "deploy_aci"}
    /\ step = (IF script = "deploy_aci" THEN "environment" ELSE "endpoint_name")
    /\ configured \in ConfiguredNames
    /\ unique_endpoint_name = <<>>
    /\ unique_deployment_name = <<>>
    /\ endpoint = NoHandle
    /\ deployment = NoHandle
    /\ actual = [endpoint_name |-> <<>>, deployment_name |-> <<>>]
    /\ calls = <<>>
    /\ NoArchives

\* The script calls a retry function with a config of the given name.
CallRetry(f, name, budget, settings) ==
    /\ fn' = f
    /\ max_retries' = budget
    /\ original_name' = name
    /\ config_name' = name
    /\ retry_count' = 0
    /\ pc' = "loop"
    /\ attempts' = <<>>
    /\ submitted_name' = <<>>
    /\ deleted_name' = <<>>
    /\ generated_name' = <<>>
    /\ cleanup_error' = NoError
    /\ trace' = <<>>
    /\ result' = NoHandle
    /\ raised' = NoError
    /\ config_settings' = settings
    /\ submitted_settings' = NoSettings
    /\ UNCHANGED <<workspace, removed>>

\* The fields of the endpoint config a script builds.
ScriptEndpointSettings ==
    [kind |-> "endpoint", auth_mode |-> "key",
     description |-> "Purchase predictor model endpoint with unique naming"]

\* The fields of the deployment config a script builds for an endpoint name.
ScriptDeploymentSettings(endpoint_name) ==
    [kind |-> "deployment", endpoint_name |-> endpoint_name,
     model |-> "purchase-predictor-model:1",
     instance_type |-> (IF script = "deploy_aci" THEN "Standard_F2s_v2"
                                                 ELSE "Standard_DS2_v2"),
     instance_count |-> 1]

\* create_environment / create_optimized_environment returns.
EnvironmentCreated ==
    /\ script # "none"
    /\ step = "environment"
    /\ step' = (IF script = "deploy_aci" THEN "endpoint_name" ELSE "deployment_name")
    /\ UNCHANGED <<script, configured, unique_endpoint_name, unique_deployment_name,
                   endpoint, deployment, actual, calls>>
    /\ UNCHANGED retryVars
    /\ UNCHANGED namingVars
    /\ UNCHANGED archiveVars

\* create_or_update_endpoint / create_optimized_endpoint up to the call of
\* create_endpoint_with_cleanup_retry: generate, validate once, fall back.
EndpointNamed(d, f) ==
    /\ script \in {"deploy", "deploy_managed_endpoint"}
    /\ step = "endpoint_name"
    /\ unique_endpoint_name' =
          first_endpoint_name(SplitFirst(configured.endpoint_name), <<"p","p">>, d, f)
    /\ CallRetry("endpoint", unique_endpoint_name', DefaultEndpointRetries,
                 ScriptEndpointSettings)
    /\ step' = "endpoint_create"
    /\ UNCHANGED <<script, configured, unique_deployment_name, endpoint, deployment,
                   actual, calls>>
    /\ UNCHANGED namingVars
    /\ UNCHANGED archiveVars

\* deploy_to_aci up to the call of create_endpoint_with_cleanup_retry: both
\* names are generated, validated once and replaced on failure.
AciNamed(d, f, dd, df) ==
    /\ script = "deploy_aci"
    /\ step = "endpoint_name"
    /\ unique_endpoint_name' =
          first_endpoint_name(<<"p","u","r","c","h","a","s","e","-","p","r","e","d","i","c","t","o","r","-","a","c","i">>, <<"p","p","-","a","c","i">>, d, f)
    /\ unique_deployment_name' =
          first_deployment_name(<<"p","u","r","c","h","a","s","e","-","p","r","e","d","i","c","t","o","r","-","a","c","i","-","d","e","p">>, <<"p","p","-","a","c","i","-","d","e","p">>, dd, df)
    /\ CallRetry("endpoint", unique_endpoint_name', DefaultEndpointRetries,
                 ScriptEndpointSettings)
    /\ step' = "endpoint_create"
    /\ UNCHANGED <<script, configured, endpoint, deployment, actual, calls>>
    /\ UNCHANGED namingVars
    /\ UNCHANGED archiveVars

\* Fault: the script keeps the name it generated before the call instead of
\* the name of the returned handle.
EndpointReturned_FirstName ==
    /\ script # "none"
    /\ step = "endpoint_create"
    /\ fn = "endpoint"
    /\ pc = "returned"
    /\ endpoint' = [result EXCEPT !.name = unique_endpoint_name]
    /\ actual' = (IF script = "deploy_aci" THEN actual
                  ELSE [actual EXCEPT !.endpoint_name = unique_endpoint_name])
    /\ step' = (IF script = "deploy_aci" THEN "deployment_name" ELSE "environment")
    /\ UNCHANGED <<script, configured, unique_endpoint_name, unique_deployment_name,
                   deployment, calls>>
    /\ UNCHANGED retryVars
    /\ UNCHANGED namingVars
    /\ UNCHANGED archiveVars

\* endpoint = create_endpoint_with_cleanup_retry(...) returns; deploy.py and
\* deploy_managed_endpoint.py store actual_endpoint_name = endpoint.name.
EndpointReturned ==
    /\ script # "none"
    /\ step = "endpoint_create"
    /\ fn = "endpoint"
    /\ pc = "returned"
    /\ endpoint' = result
    /\ actual' = (IF script = "deploy_aci" THEN actual
                  ELSE [actual EXCEPT !.endpoint_name = result.name])
    /\ step' = (IF script = "deploy_aci" THEN "deployment_name" ELSE "environment")
    /\ UNCHANGED <<script, configured, unique_endpoint_name, unique_deployment_name,
                   deployment, calls>>
    /\ UNCHANGED retryVars
    /\ UNCHANGED namingVars
    /\ UNCHANGED archiveVars

\* create_deployment / create_optimized_deployment / deploy_to_aci up to the
\* call of create_deployment_with_retry, with endpoint_name=endpoint.name.
DeploymentNamed(d, f) ==
    /\ script # "none"
    /\ step = "deployment_name"
    /\ unique_deployment_name' =
          (IF script = "deploy_aci"
           THEN unique_deployment_name
           ELSE first_deployment_name(SplitFirst(configured.deployment_name),
                                      <<"p","p","-","d","e","p">>, d, f))
    /\ CallRetry("deployment", unique_deployment_name', DefaultDeploymentRetries,
                 ScriptDeploymentSettings(endpoint.name))
    /\ step' = "deployment_create"
    /\ UNCHANGED <<script, configured, unique_endpoint_name, endpoint, deployment,
                   actual, calls>>
    /\ UNCHANGED namingVars
    /\ UNCHANGED archiveVars

\* deployment = create_deployment_with_retry(...) returns; deploy.py and
\* deploy_managed_endpoint.py store actual_deployment_name = deployment.name.
DeploymentReturned ==
    /\ script # "none"
    /\ step = "deployment_create"
    /\ fn = "deployment"
    /\ pc = "returned"
    /\ deployment' = result
    /\ actual' = (IF script = "deploy_aci" THEN actual
                  ELSE [actual EXCEPT !.deployment_name = result.name])
    /\ step' = "traffic"
    /\ UNCHANGED <<script, configured, unique_endpoint_name, unique_deployment_name,
                   endpoint, calls>>
    /\ UNCHANGED retryVars
    /\ UNCHANGED namingVars
    /\ UNCHANGED archiveVars

\* CreateRaised with the exception of the retry function swallowed: the
\* script goes on to its next step.
CreateRaised_Swallowed ==
    /\ script # "none"
    /\ step \in {"endpoint_create", "deployment_create"}
    /\ pc = "raised"
    /\ step' = (IF step = "deployment_create" THEN "traffic"
                ELSE IF script = "deploy_aci" THEN "deployment_name"
                ELSE "environment")
    /\ UNCHANGED <<script, configured, unique_endpoint_name, unique_deployment_name,
                   endpoint, deployment, actual, calls>>
    /\ UNCHANGED retryVars
    /\ UNCHANGED namingVars
    /\ UNCHANGED archiveVars

\* A retry function raises: the exception leaves the script.
CreateRaised ==
    /\ script # "none"
    /\ step \in {"endpoint_create", "deployment_create"}
    /\ pc = "raised"
    /\ step' = "failed"
    /\ UNCHANGED <<script, configured, unique_endpoint_name, unique_deployment_name,
                   endpoint, deployment, actual, calls>>
    /\ UNCHANGED retryVars
    /\ UNCHANGED namingVars
    /\ UNCHANGED archiveVars

\* A cloud call made after the creations.
Call(op, endpoint_name, deployment_name) ==
    [op |-> op, endpoint_name |-> endpoint_name, deployment_name |-> deployment_name]

\* set_traffic_to_deployment(ml_client, config) with the actual names of the
\* config; configure_endpoint_traffic(ml_client, endpoint.name,
\* deployment.name); the traffic lines of deploy_to_aci.
TrafficSet ==
    /\ script # "none"
    /\ step = "traffic"
    /\ calls' =
          (IF script = "deploy"
           THEN IF actual.endpoint_name = <<>> \/ actual.deployment_name = <<>>
                THEN calls
                ELSE Append(calls, Call("traffic", actual.endpoint_name,
                                        actual.deployment_name))
           ELSE Append(calls, Call("traffic", endpoint.name, deployment.name)))
    /\ step' = "details"
    /\ UNCHANGED <<script, configured, unique_endpoint_name, unique_deployment_name,
                   endpoint, deployment, actual>>
    /\ UNCHANGED retryVars
    /\ UNCHANGED namingVars
    /\ UNCHANGED archiveVars

\* get_endpoint_details / get_hosted_endpoint_details / the closing lines of
\* deploy_to_aci: the endpoint is fetched and the names are written to the
\* endpoint info file.
DetailsSaved ==
    /\ script # "none"
    /\ step = "details"
    /\ calls' =
          (IF script = "deploy"
           THEN IF actual.endpoint_name = <<>>
                THEN calls
                ELSE calls \o << Call("get", actual.endpoint_name, <<>>),
                                Call("persist", actual.endpoint_name,
                                     actual.deployment_name) >>
           ELSE IF script = "deploy_managed_endpoint"
           THEN calls \o << Call("get", endpoint.name, <<>>),
                           Call("persist", endpoint.name, actual.deployment_name) >>
           ELSE calls \o << Call("get", endpoint.name, <<>>),
                           Call("persist", endpoint.name, deployment.name) >>)
    /\ step' = "test"
    /\ UNCHANGED <<script, configured, unique_endpoint_name, unique_deployment_name,
                   endpoint, deployment, actual>>
    /\ UNCHANGED retryVars
    /\ UNCHANGED namingVars
    /\ UNCHANGED archiveVars

\* test_endpoint(ml_client, config) reads config['deployment']['endpoint_name']
\* and ['deployment_name']; test_hosted_endpoint and test_aci_service are
\* given endpoint.name and the deployment's name.
EndpointTested ==
    /\ script # "none"
    /\ step = "test"
    /\ calls' =
          (IF script = "deploy"
           THEN Append(calls, Call("invoke", configured.endpoint_name,
                                   configured.deployment_name))
           ELSE Append(calls, Call("invoke", endpoint.name, deployment.name)))
    /\ step' = "completed"
    /\ UNCHANGED <<script, configured, unique_endpoint_name, unique_deployment_name,
                   endpoint, deployment, actual>>
    /\ UNCHANGED retryVars
    /\ UNCHANGED namingVars
    /\ UNCHANGED archiveVars

\* A cloud call of the environment, traffic or details step raises: the
\* exception leaves the script.
StepRaised ==
    /\ script # "none"
    /\ step \in {"environment", "traffic", "details"}
    /\ step' = "failed"
    /\ UNCHANGED <<script, configured, unique_endpoint_name, unique_deployment_name,
                   endpoint, deployment, actual, calls>>
    /\ UNCHANGED retryVars
    /\ UNCHANGED namingVars
    /\ UNCHANGED archiveVars

\* The steps of a script and of the retry functions it calls; with the
\* default budgets the closing raise of the retry functions is not reached.
NextDeploy ==
    \/ EnvironmentCreated
    \/ \E d \in Draws, f \in Draws : EndpointNamed(d, f)
    \/ \E d \in ScriptDraws, f \in ScriptDraws, dd \in ScriptDraws, df \in ScriptDraws :
          AciNamed(d, f, dd, df)
    \/ EndpointReturned
    \/ \E d \in Draws, f \in Draws : DeploymentNamed(d, f)
    \/ DeploymentReturned
    \/ CreateRaised
    \/ TrafficSet
    \/ DetailsSaved
    \/ EndpointTested
    \/ StepRaised
    \/ EpCreateReturns
    \/ \E msg \in ScriptErrors : EpCreateRaises(msg)
    \/ EpDeleteReturns
    \/ \E msg \in DeleteErrors : EpDeleteRaises(msg)
    \/ \E t \in ScriptClock, d \in ScriptDraws : EpSleepRename(t, d.now, d.u1, d.u2)
    \/ DepCreateReturns
    \/ \E msg \in ScriptErrors : DepCreateRaises(msg)
    \/ \E t \in ScriptClock, d \in ScriptDraws : DepSleepRename(t, d.now, d.u1)

SpecDeploy == InitDeploy /\ [][NextDeploy]_vars

\* -------------------------------------------------- deployment archives

\* keep_count=5 of clean_old_archives.
DefaultKeepCount == 5

\* The keep_count arguments of clean_old_archives.
KeepCounts == 0..DefaultKeepCount

\* datetime.now() of the archive functions, a number of seconds after
\* 2026-11-03 11:59:58.
ArchiveClock(s) ==
    LET seconds == 58 + s
        minutes == 59 + (seconds \div 60)
    IN  [year |-> 2026, month |-> 11, day |-> 3, hour |-> 11 + (minutes \div 60),
         minute |-> minutes % 60, second |-> seconds % 60]

\* datetime.now().strftime("%Y-%m-%d_%H-%M-%S")
StrftimeArchive(now) ==
    Str(now.year) \o <<"-">> \o Pad2(now.month) \o <<"-">> \o Pad2(now.day) \o <<"_">>
        \o Pad2(now.hour) \o <<"-">> \o Pad2(now.minute) \o <<"-">> \o Pad2(now.second)

\* The characters of archive names, in code point order.
CodePoints == <<"-","0","1","2","3","4","5","6","7","8","9","_","a","b","c","d","e","f","g","h","i","j","k","l","m","n","o","p","q","r","s","t","u","v","w","x","y","z">>

\* ord(c)
Ord(c) == CHOOSE i \in 1..Len(CodePoints) : CodePoints[i] = c

\* a < b on the names of two paths of one directory.
RECURSIVE PathLess(_, _)
PathLess(a, b) ==
    IF a = <<>> THEN b # <<>>
    ELSE IF b = <<>> THEN FALSE
    ELSE IF a[1] = b[1] THEN PathLess(Tail(a), Tail(b))
    ELSE Ord(a[1]) < Ord(b[1])

\* os.makedirs(dir, exist_ok=True) / mkdir(parents=True, exist_ok=True) of an
\* archive directory: a directory of that name is kept as it is.
MakeArchive(name) ==
    IF \E a \in archives : a.name = name
    THEN UNCHANGED <<archives, created_count>>
    ELSE /\ archives' = archives \cup {[name |-> name, created |-> created_count + 1]}
         /\ created_count' = created_count + 1

\* The directories clean_old_archives(keep_count) leaves: sorted(...,
\* reverse=True)[keep_count:] is removed, so a directory stays when fewer
\* than keep_count names are greater than its name.
clean_old_archives(dirs, keep_count) ==
    IF Cardinality(dirs) <= keep_count
    THEN dirs
    ELSE {d \in dirs : Cardinality({e \in dirs : PathLess(d.name, e.name)}) < keep_count}

\* No run of the archive functions.
InitArchives ==
    /\ NoRetryCall
    /\ NoNamingCall
    /\ NoScript
    /\ NoArchives

\* prepare_deployment_artifacts of deploy_aci.py: the archive directory of
\* the current second is made, then score.py and preprocessing.py are copied
\* into server/.
PrepareDeploymentArtifacts ==
    /\ last_clean = NoClean
    /\ created_count < MaxArchives
    /\ MakeArchive(StrftimeArchive(ArchiveClock(second)))
    /\ server_files' = TRUE
    /\ UNCHANGED <<second, last_clean>>
    /\ UNCHANGED retryVars
    /\ UNCHANGED namingVars
    /\ UNCHANGED deployVars

\* prepare_fresh_deployment with score.py or preprocessing.py in server/: the
\* files are moved to archives/manual-cleanup-<timestamp>. Without them the
\* function changes nothing.
PrepareFreshDeployment ==
    /\ last_clean = NoClean
    /\ created_count < MaxArchives
    /\ server_files
    /\ MakeArchive(<<"m","a","n","u","a","l","-","c","l","e","a","n","u","p","-">> \o StrftimeArchive(ArchiveClock(second)))
    /\ server_files' = FALSE
    /\ UNCHANGED <<second, last_clean>>
    /\ UNCHANGED retryVars
    /\ UNCHANGED namingVars
    /\ UNCHANGED deployVars

\* A second passes.
SecondPasses ==
    /\ last_clean = NoClean
    /\ second < MaxSecond
    /\ second' = second + 1
    /\ UNCHANGED <<archives, server_files, created_count, last_clean>>
    /\ UNCHANGED retryVars
    /\ UNCHANGED namingVars
    /\ UNCHANGED deployVars

\* clean_old_archives(keep_count) with server/archives present; a run is
\* followed up to its first call of clean_old_archives.
CleanOldArchives(keep_count) ==
    /\ last_clean = NoClean
    /\ created_count > 0
    /\ archives' = clean_old_archives(archives, keep_count)
    /\ last_clean' = [keep_count |-> keep_count, before |-> archives,
                      after |-> archives']
    /\ UNCHANGED <<server_files, created_count, second>>
    /\ UNCHANGED retryVars
    /\ UNCHANGED namingVars
    /\ UNCHANGED deployVars

NextArchives ==
    \/ PrepareDeploymentArtifacts
    \/ PrepareFreshDeployment
    \/ SecondPasses
    \/ \E keep_count \in KeepCounts : CleanOldArchives(keep_count)

SpecArchives == InitArchives /\ [][NextArchives]_vars

\* ------------------------------------------------------------ properties

\* The number of calls of one kind made so far.
Count(tag) == Cardinality({i \in 1..Len(trace) : trace[i] = tag})

\* The call has ended.
Done == pc \in {"returned", "raised"}

\* Every message a create call raises in some specification.
Messages == CoreErrors \cup AllErrors

\* The classification each function gives each message, tabulated.
EndpointClass == [m \in Messages |-> endpoint_is_retryable(m)]

DeploymentClass == [m \in Messages |-> deployment_is_retryable(m)]

\* The classification the running function gives a message.
Retryable(msg) == IF fn = "endpoint" THEN EndpointClass[msg] ELSE DeploymentClass[msg]

\* Attempt i raised an error the function classifies as retryable.
FailedRetryably(i) == attempts[i].outcome = "error" /\ Retryable(attempts[i].msg)

\* C1: with max_retries >= 0, whatever the create calls' outcomes, a call of
\* either retry function makes at most max_retries + 1 create attempts.
C1_AtMostBudgetAttempts ==
    max_retries >= 0 =>
        /\ Count("create") <= max_retries + 1
        /\ Len(attempts) = Count("create")

\* C1 witness: a call with a budget of at least one retry used all of it.
C1_Witness ==
    /\ max_retries >= 1
    /\ Count("create") = max_retries + 1
    /\ pc = "raised"

\* C2: when every create attempt raises a retryable error, a call with
\* max_retries = N >= 0 ends after exactly N + 1 attempts, by raising.
C2_AlwaysRetryableExhausts ==
    (/\ max_retries >= 0
     /\ Done
     /\ \A i \in 1..Len(attempts) : FailedRetryably(i))
        => (pc = "raised" /\ Len(attempts) = max_retries + 1)

\* C2 witness: a deployment call with max_retries = 2 ended after three
\* retryable failures.
C2_Witness ==
    /\ fn = "deployment"
    /\ max_retries = 2
    /\ Done
    /\ Len(attempts) = 3
    /\ \A i \in 1..Len(attempts) : FailedRetryably(i)

\* C3: in create_endpoint_with_cleanup_retry the cleanup delete runs once per
\* retry, right after the failed attempt it cleans up and before the next
\* attempt, at most max_retries times, and never after the final attempt.
C3_CleanupOncePerRetry ==
    (fn = "endpoint" /\ max_retries >= 0) =>
        /\ Count("delete") <= max_retries
        /\ \A i \in 1..Len(trace) :
              trace[i] = "delete" =>
                  /\ i > 1 /\ trace[i - 1] = "create"
                  /\ i + 1 <= Len(trace) => trace[i + 1] = "sleep"
                  /\ i + 3 <= Len(trace) => trace[i + 3] = "create"
        /\ pc \in {"loop", "returned", "raised"} => Count("delete") = retry_count
        /\ Done => (Count("delete") = Len(attempts) - 1 /\ trace[Len(trace)] = "create")

\* C3 witness: an endpoint call raised after max_retries >= 2 cleanups.
C3_Witness ==
    /\ fn = "endpoint"
    /\ max_retries >= 2
    /\ pc = "raised"
    /\ Count("delete") = max_retries

\* C4: a first create attempt that raises an error matching no retryable
\* pattern ends the call at once, whatever max_retries is: one create call,
\* no sleep, no cleanup delete, no rename, and that error raised.
C4_FatalFirstAttemptPropagates ==
    (/\ Len(attempts) >= 1
     /\ attempts[1].outcome = "error"
     /\ ~Retryable(attempts[1].msg))
        => /\ pc = "raised"
           /\ raised = CreateError(1, attempts[1].msg)
           /\ trace = <<"create">>
           /\ Len(attempts) = 1
           /\ config_name = original_name
           /\ retry_count = 0

\* C4 witness: a call with the largest budget ended on a fatal first error.
C4_Witness ==
    /\ max_retries = MaxRetriesBound
    /\ Len(attempts) = 1
    /\ attempts[1].outcome = "error"
    /\ ~Retryable(attempts[1].msg)
    /\ Done

\* The call returned from an attempt that followed k >= 1 attempts which all
\* raised retryable errors.
SucceededAfterRetries ==
    /\ pc = "returned"
    /\ Len(attempts) >= 2
    /\ Len(attempts) - 1 <= max_retries
    /\ attempts[Len(attempts)].outcome = "ok"
    /\ \A i \in 1..(Len(attempts) - 1) : FailedRetryably(i)

\* The names the fallback generator can give a retry: "pp-retry-MMDD-HHMM-"
\* and six characters for an endpoint, "pp-dep-retry-MMDDHHMM-" and four
\* characters for a deployment.
FallbackShaped(name) ==
    IF fn = "endpoint"
    THEN Len(name) = 25 /\ Prefix(name, 9) = <<"p","p","-","r","e","t","r","y","-">>
    ELSE Len(name) = 26 /\ Prefix(name, 13) = <<"p","p","-","d","e","p","-","r","e","t","r","y","-">>

C6_ReturnsIffAttemptSucceeded ==
    /\ pc = "returned" <=> (\E i \in 1..Len(attempts) : attempts[i].outcome = "ok")
    /\ pc = "returned" =>
          /\ attempts[Len(attempts)].outcome = "ok"
          /\ result = Handle(Len(attempts), submitted_name)
          /\ raised = NoError
    /\ pc # "returned" => result = NoHandle
    /\ pc = "raised" <=> raised # NoError
    /\ (Len(attempts) >= 1 /\ attempts[Len(attempts)].outcome = "error") =>
          pc \in {"raised", "delete", "sleep", "loop"}

\* C6 witness: a deployment call returned the handle of its second attempt.
C6_Witness ==
    /\ fn = "deployment"
    /\ pc = "returned"
    /\ Len(attempts) = 2
    /\ result = Handle(2, config_name)

\* C7: when a call raises after at least one create attempt, the exception
\* is the one the most recent create attempt raised: not an earlier
\* attempt's, not the cleanup's, not a wrapper.
C7_RaisesLastCreateError ==
    (pc = "raised" /\ Len(attempts) >= 1) =>
        /\ attempts[Len(attempts)].outcome = "error"
        /\ raised = CreateError(Len(attempts), attempts[Len(attempts)].msg)

\* C7 witness: an endpoint call raised its third attempt's error, which is
\* not the first attempt's, after a cleanup had failed.
C7_Witness ==
    /\ fn = "endpoint"
    /\ pc = "raised"
    /\ Len(attempts) = 3
    /\ attempts[3].msg # attempts[1].msg
    /\ cleanup_error # NoError
    /\ raised = CreateError(3, attempts[3].msg)

\* C8: in create_endpoint_with_cleanup_retry an exception of the cleanup
\* delete never ends the call: the function sleeps, renames and makes the
\* next create attempt, and the delete's exception is never what it raises.
C8_CleanupFailureSwallowed ==
    (fn = "endpoint" /\ cleanup_error # NoError) =>
        /\ raised.origin # "delete"
        /\ Len(attempts) >= cleanup_error.attempt
        /\ Len(attempts) = cleanup_error.attempt =>
              /\ pc \in {"sleep", "loop"}
              /\ pc = "loop" =>
                    /\ LoopCondition(retry_count, max_retries)
                    /\ SubSeq(trace, Len(trace) - 2, Len(trace)) = <<"delete", "sleep", "rename">>
        /\ Done => Len(attempts) > cleanup_error.attempt

\* C8 witness: after a cleanup that raised, the endpoint call slept, renamed
\* and made the next create attempt.
C8_Witness ==
    /\ fn = "endpoint"
    /\ cleanup_error # NoError
    /\ Len(attempts) = cleanup_error.attempt + 1
    /\ SubSeq(trace, Len(trace) - 3, Len(trace)) = <<"delete", "sleep", "rename", "create">>

\* C9: the config is renamed in place: when a call returns, the caller's
\* config.name is the name submitted in the successful create attempt, the
\* initial name after a first-attempt success and the last name generated
\* for a retry otherwise.
C9_ConfigNameIsSuccessfulName ==
    pc = "returned" =>
        /\ config_name = submitted_name
        /\ config_name = result.name
        /\ Len(attempts) = 1 => config_name = original_name
        /\ Len(attempts) > 1 => config_name = generated_name

\* C9 witness: an endpoint call returned from its third attempt with the
\* config renamed.
C9_Witness ==
    /\ fn = "endpoint"
    /\ pc = "returned"
    /\ Len(attempts) = 3
    /\ config_name = submitted_name
    /\ config_name # original_name

\* The function went on to a retry after attempt i.
Retried(i) == Len(attempts) > i \/ pc \in {"delete", "sleep", "loop"}

\* The message holds one of the patterns, letter case apart.
MatchesAny(patterns, msg) == \E p \in patterns : Contains(Lower(msg), p)

\* MatchesAny, tabulated for a set of patterns.
MatchTable(patterns) == [m \in Messages |-> MatchesAny(patterns, m)]

\* The endpoint patterns as the claim lists them.
ClaimedEndpointPatterns ==
    { <<"h","a","s"," ","n","o","t"," ","b","e","e","n"," ","c","r","e","a","t","e","d"," ","s","u","c","c","e","s","s","f","u","l","l","y">>,
      <<"e","n","d","p","o","i","n","t"," ","i","s"," ","b","e","i","n","g"," ","d","e","l","e","t","e","d">>,
      <<"a","l","r","e","a","d","y"," ","e","x","i","s","t","s">>,
      <<"p","r","o","v","i","s","i","o","n","i","n","g"," ","f","a","i","l","e","d">>,
      <<"r","e","s","o","u","r","c","e"," ","c","o","n","f","l","i","c","t">>,
      <<"t","i","m","e","o","u","t">> }

\* The endpoint patterns of the amended claim.
AmendedEndpointPatterns ==
    { <<"h","a","s"," ","n","o","t"," ","b","e","e","n"," ","c","r","e","a","t","e","d"," ","s","u","c","c","e","s","s","f","u","l","l","y">>,
      <<"e","n","d","p","o","i","n","t"," ","i","s"," ","b","e","i","n","g"," ","d","e","l","e","t","e","d">>,
      <<"e","n","d","p","o","i","n","t"," ","a","l","r","e","a","d","y"," ","e","x","i","s","t","s">>,
      <<"p","r","o","v","i","s","i","o","n","i","n","g"," ","f","a","i","l","e","d">>,
      <<"r","e","s","o","u","r","c","e"," ","c","o","n","f","l","i","c","t">>,
      <<"t","i","m","e","o","u","t">> }

ClaimedEndpointMatch == MatchTable(ClaimedEndpointPatterns)

AmendedEndpointMatch == MatchTable(AmendedEndpointPatterns)

\* C10 as stated: an endpoint creation error is retried, while budget
\* remains, exactly when its message holds "has not been created
\* successfully", "endpoint is being deleted", "already exists",
\* "provisioning failed", "resource conflict" or "timeout"; so every error
\* holding "already exists" is retried.  (Letter case is ignored here, as
\* the function ignores it.)
C10_Original ==
    fn = "endpoint" =>
        \A i \in 1..Len(attempts) :
            (attempts[i].outcome = "error" /\ i <= max_retries) =>
                (Retried(i) <=> ClaimedEndpointMatch[attempts[i].msg])

\* C10 as amended: an endpoint creation error is retried, while budget
\* remains, exactly when its lower-cased message holds "has not been created
\* successfully", "endpoint is being deleted", "endpoint already exists",
\* "provisioning failed", "resource conflict" or "timeout"; an "already
\* exists" error that does not name the endpoint is fatal.
C10_EndpointRetryablePatterns ==
    fn = "endpoint" =>
        \A i \in 1..Len(attempts) :
            attempts[i].outcome = "error" =>
                (Retried(i) <=>
                    (i <= max_retries /\ AmendedEndpointMatch[attempts[i].msg]))

\* C10 witness: with budget left, "Resource already exists" on the first
\* attempt was raised, not retried.
C10_Witness ==
    /\ fn = "endpoint"
    /\ max_retries = 1
    /\ Len(attempts) = 1
    /\ attempts[1].msg = <<"R","e","s","o","u","r","c","e"," ","a","l","r","e","a","d","y"," ","e","x","i","s","t","s">>
    /\ pc = "raised"
    /\ raised = CreateError(1, attempts[1].msg)

\* The deployment patterns as the claim lists them.
ClaimedDeploymentPatterns ==
    { <<"d","e","p","l","o","y","m","e","n","t"," ","f","a","i","l","e","d">>,
      <<"i","m","a","g","e"," ","b","u","i","l","d"," ","f","a","i","l","e","d">>,
      <<"t","i","m","e","o","u","t">>,
      <<"r","e","s","o","u","r","c","e"," ","t","e","m","p","o","r","a","r","i","l","y"," ","u","n","a","v","a","i","l","a","b","l","e">>,
      <<"p","r","o","v","i","s","i","o","n","i","n","g"," ","f","a","i","l","e","d">> }

ClaimedDeploymentMatch == MatchTable(ClaimedDeploymentPatterns)

\* C11: a deployment creation error is retried, while budget remains,
\* exactly when its lower-cased message holds "deployment failed", "image
\* build failed", "timeout", "resource temporarily unavailable" or
\* "provisioning failed"; every other error is raised by the attempt that
\* met it.
C11_DeploymentRetryablePatterns ==
    fn = "deployment" =>
        \A i \in 1..Len(attempts) :
            attempts[i].outcome = "error" =>
                /\ Retried(i) <=>
                      (i <= max_retries /\ ClaimedDeploymentMatch[attempts[i].msg])
                /\ ~ClaimedDeploymentMatch[attempts[i].msg] =>
                      /\ Len(attempts) = i
                      /\ pc = "raised"
                      /\ raised = CreateError(i, attempts[i].msg)

\* C11 witness: a deployment call retried "Image build failed" and then
\* raised "Endpoint already exists", which holds no deployment pattern.
C11_Witness ==
    /\ fn = "deployment"
    /\ Len(attempts) = 2
    /\ attempts[1].msg = <<"I","m","a","g","e"," ","b","u","i","l","d"," ","f","a","i","l","e","d">>
    /\ attempts[2].msg = <<"E","n","d","p","o","i","n","t"," ","a","l","r","e","a","d","y"," ","e","x","i","s","t","s">>
    /\ raised = CreateError(2, attempts[2].msg)

\* C12 as stated: before create_deployment_with_retry sleeps for a retry it
\* calls a delete of the deployment under the name that just failed.
C12_Original ==
    fn = "deployment" =>
        \A i \in 1..Len(trace) :
            trace[i] = "sleep" => (i > 1 /\ trace[i - 1] = "delete")

\* C12 as amended: create_deployment_with_retry never calls a delete; after
\* a retryable failure with budget left it goes from the failed create
\* straight to the sleep, the rename and the next create.  Only
\* create_endpoint_with_cleanup_retry cleans up.
C12_DeploymentRetriesWithoutCleanup ==
    fn = "deployment" =>
        /\ Count("delete") = 0
        /\ deleted_name = <<>>
        /\ cleanup_error = NoError
        /\ \A i \in 1..Len(trace) :
              trace[i] = "sleep" =>
                  /\ i > 1 /\ trace[i - 1] = "create"
                  /\ attempts[(i + 2) \div 3].outcome = "error"
                  /\ trace[i + 1] = "rename"
                  /\ i + 2 <= Len(trace) => trace[i + 2] = "create"

\* C12 witness: a deployment call made its second attempt after a retryable
\* failure, a sleep and a rename, with no delete.
C12_Witness ==
    /\ fn = "deployment"
    /\ trace = <<"create", "sleep", "rename", "create">>
    /\ FailedRetryably(1)
    /\ config_name # original_name

\* The steps of one round of create_endpoint_with_cleanup_retry, in order.
EndpointRound == <<"create", "delete", "sleep", "rename">>

\* C13: in create_endpoint_with_cleanup_retry the steps after a retryable
\* failure with budget left come in the order delete, sleep, rename, create,
\* and the delete is called with the name of the attempt that just failed,
\* before the next name is generated.
C13_CleanupOrderAndTarget ==
    fn = "endpoint" =>
        /\ \A i \in 1..Len(trace) : trace[i] = EndpointRound[((i - 1) % 4) + 1]
        /\ \A i \in 1..Len(trace) :
              trace[i] = "delete" => FailedRetryably((i + 2) \div 4)
        /\ pc = "delete" => config_name = submitted_name
        /\ pc = "sleep" =>
              /\ trace[Len(trace)] = "delete"
              /\ deleted_name = submitted_name
              /\ deleted_name = config_name
        /\ (pc = "loop" /\ Len(trace) > 0) =>
              /\ trace[Len(trace)] = "rename"
              /\ config_name = generated_name

\* C13 witness: the second cleanup of an endpoint call has run, on the name
\* the first retry generated, which differs from the name of the first
\* attempt.
C13_Witness ==
    /\ fn = "endpoint"
    /\ pc = "sleep"
    /\ trace = <<"create", "delete", "sleep", "rename", "create", "delete">>
    /\ deleted_name = generated_name
    /\ deleted_name # original_name

\* What is left of a call: the rounds the budget still allows, then the
\* steps left in the current round.
Variant ==
    IF Done THEN 0
    ELSE 4 * (max_retries + 1 - retry_count)
           + (CASE pc = "loop" -> 3 [] pc = "delete" -> 2 [] pc = "sleep" -> 1)

\* C14: when every create, delete and sleep call comes back, every call of a
\* retry function ends, returned or raised, whatever max_retries is and
\* whatever the create calls do: each step of an unfinished call lowers a
\* measure that is never negative, and the call does reach its end.
C14_EveryCallTerminates ==
    /\ [](Variant >= 0)
    /\ [][~Done => Variant' < Variant]_vars
    /\ <>Done
    /\ [](Done => (result # NoHandle) # (raised # NoError))

\* C14 witness: a call with the largest budget has ended after using every
\* attempt the budget allows.
C14_Witness ==
    /\ Done
    /\ max_retries = MaxRetriesBound
    /\ Len(attempts) = max_retries + 1

\* The name a finished validation was made of.
ValidatedName ==
    IF naming_fn = "validate_azure_ml_name" THEN arg_name ELSE unique_name

\* The naming grammar: ^[a-z0-9][a-z0-9-]*[a-z0-9]$, length 3 to 32, no "--".
GrammarInner == Chars(<<"a","b","c","d","e","f","g","h","i","j","k","l","m","n","o","p","q","r","s","t","u","v","w","x","y","z","0","1","2","3","4","5","6","7","8","9","-">>)

GrammarEdge == Chars(<<"a","b","c","d","e","f","g","h","i","j","k","l","m","n","o","p","q","r","s","t","u","v","w","x","y","z","0","1","2","3","4","5","6","7","8","9">>)

InGrammar(name) ==
    /\ Len(name) >= 3
    /\ Len(name) <= 32
    /\ name[1] \in GrammarEdge
    /\ name[Len(name)] \in GrammarEdge
    /\ \A i \in 1..Len(name) : name[i] \in GrammarInner
    /\ \A i \in 1..(Len(name) - 1) : ~(name[i] = "-" /\ name[i + 1] = "-")

\* C15: validate_azure_ml_name returns (True, None) exactly for the names of
\* the grammar (length 3 to 32, characters a-z, 0-9 and hyphen, first and
\* last character a-z or 0-9, no two hyphens in a row) and (False, reason)
\* for every other string.
C15_ValidIffInGrammar ==
    naming_pc = "validated" =>
        IF InGrammar(ValidatedName)
        THEN validation = [is_valid |-> TRUE, error_msg |-> None]
        ELSE /\ validation.is_valid = FALSE
             /\ validation.error_msg \notin {None, NoValidation.error_msg}

\* C15 witness: a 32-character name of the grammar with a hyphen inside was
\* validated and accepted.
C15_Witness ==
    /\ naming_fn = "validate_azure_ml_name"
    /\ naming_pc = "validated"
    /\ Len(arg_name) = 32
    /\ Contains(arg_name, <<"-">>)
    /\ validation.is_valid

\* The name_type a finished validation was made with.
ValidatedType ==
    IF naming_fn = "generate_unique_deployment_name" THEN "deployment" ELSE "endpoint"

\* ASCII letters and digits.
AlnumChars ==
    Chars(<<"a","b","c","d","e","f","g","h","i","j","k","l","m","n","o","p","q","r","s","t","u","v","w","x","y","z","A","B","C","D","E","F","G","H","I","J","K","L","M","N","O","P","Q","R","S","T","U","V","W","X","Y","Z","0","1","2","3","4","5","6","7","8","9">>)

\* The rules a name breaks, numbered in the order the claim gives: 1 empty,
\* 2 shorter than 3, 3 longer than 32, 4 first or last character not
\* alphanumeric, 5 a character outside [a-z0-9-], 6 consecutive hyphens.
BrokenRules(name) ==
    {k \in 1..6 :
        \/ k = 1 /\ Len(name) = 0
        \/ k = 2 /\ Len(name) < 3
        \/ k = 3 /\ Len(name) > 32
        \/ k = 4 /\ (Len(name) = 0 \/ name[1] \notin AlnumChars
                                    \/ name[Len(name)] \notin AlnumChars)
        \/ k = 5 /\ \E i \in 1..Len(name) : name[i] \notin GrammarInner
        \/ k = 6 /\ \E i \in 1..(Len(name) - 1) : name[i] = "-" /\ name[i + 1] = "-"}

\* The reason reported for each rule.
RuleReason ==
    << " name cannot be empty",
       " name must be at least 3 characters long",
       " name must be 32 characters or less",
       " name must start and end with alphanumeric character",
       " name can only contain lowercase letters, numbers, and hyphens",
       " name cannot contain consecutive hyphens" >>

FirstBroken(name) == CHOOSE k \in BrokenRules(name) : \A j \in BrokenRules(name) : k <= j

\* C16: for a name that breaks one or several rules, validate_azure_ml_name
\* reports the reason of the first broken rule in the order empty, shorter
\* than 3, longer than 32, first or last character not alphanumeric,
\* character outside [a-z0-9-], consecutive hyphens; "ab" gets the length
\* reason, "Abc123" the character-set reason, "a--b" the hyphen reason.
C16_FirstFailingReason ==
    naming_pc = "validated" =>
        /\ BrokenRules(ValidatedName) # {} =>
              validation = [is_valid |-> FALSE,
                            error_msg |-> ValidatedType
                                            \o RuleReason[FirstBroken(ValidatedName)]]
        /\ arg_name = <<"a","b">> => validation.error_msg = "endpoint" \o RuleReason[2]
        /\ arg_name = <<"A","b","c","1","2","3">> => validation.error_msg = "endpoint" \o RuleReason[5]
        /\ arg_name = <<"a","-","-","b">> => validation.error_msg = "endpoint" \o RuleReason[6]

\* C16 witness: a name that breaks three rules (first and last character,
\* character set, consecutive hyphens) was given the reason of the first.
C16_Witness ==
    /\ naming_fn = "validate_azure_ml_name"
    /\ naming_pc = "validated"
    /\ BrokenRules(arg_name) = {4, 5, 6}
    /\ validation.error_msg = "endpoint" \o RuleReason[4]

\* A generator has returned.
Generated(f) == naming_fn = f /\ naming_pc \in {"generated", "validated"}

\* C17 as stated: for every base and every max_length >= 3 the name
\* generate_unique_endpoint_name returns is at most max_length characters
\* long, the "pp" abbreviation included.
C17_EndpointNameWithinMaxLength ==
    (Generated("generate_unique_endpoint_name") /\ arg_max_length >= 3) =>
        Len(unique_name) <= arg_max_length

\* C17 witness: generate_unique_endpoint_name("purchase-predictor", 10) took
\* the "pp" path and returned a name of 17 characters.
C17_Witness ==
    /\ Generated("generate_unique_endpoint_name")
    /\ arg_name = <<"p","u","r","c","h","a","s","e","-","p","r","e","d","i","c","t","o","r">>
    /\ arg_max_length = 10
    /\ unique_name = <<"p","p","-","1","1","0","3","-","1","1","3","6","-","a","b","c","1">>
    /\ Len(unique_name) = 17

\* C18: for every base and every max_length >= 3 the name
\* generate_unique_deployment_name returns is at most max_length characters
\* long.
C18_DeploymentNameWithinMaxLength ==
    (Generated("generate_unique_deployment_name") /\ arg_max_length >= 3) =>
        Len(unique_name) <= arg_max_length

\* C18 witness: with max_length 3 and the longest base the deployment
\* generator returned a name cut to 3 characters.
C18_Witness ==
    /\ Generated("generate_unique_deployment_name")
    /\ arg_name = <<"p","u","r","c","h","a","s","e","-","p","r","e","d","i","c","t","o","r","-","d","e","p","l","o","y","m","e","n","t">>
    /\ arg_max_length = 3
    /\ unique_name = <<"p","p","-">>

\* ASCII letters, digits and the hyphen.
AlnumHyphenChars == AlnumChars \cup {"-"}

\* C19 as stated: for a base of ASCII letters, digits and hyphens and
\* 3 <= max_length <= 32, the name either generator returns passes
\* validate_azure_ml_name, also when the base was truncated or the name cut.
C19_GeneratedNamesValidate ==
    ( /\ naming_fn \in {"generate_unique_endpoint_name",
                         "generate_unique_deployment_name"}
      /\ naming_pc = "validated"
      /\ Chars(arg_name) \subseteq AlnumHyphenChars
      /\ arg_max_length >= 3
      /\ arg_max_length <= 32 ) =>
        validation = [is_valid |-> TRUE, error_msg |-> None]

\* C19 witness: generate_unique_endpoint_name("purchase-predictor", 26) cut
\* the base after its hyphen, and the name returned, with two hyphens in a
\* row, was rejected by validate_azure_ml_name.
C19_Witness ==
    /\ naming_fn = "generate_unique_endpoint_name"
    /\ naming_pc = "validated"
    /\ arg_name = <<"p","u","r","c","h","a","s","e","-","p","r","e","d","i","c","t","o","r">>
    /\ arg_max_length = 26
    /\ unique_name = <<"p","u","r","c","h","a","s","e","-","-","1","1","0","3","-","1","1","3","6","-","a","b","c","1","2","3">>
    /\ validation = [is_valid |-> FALSE,
                     error_msg |-> "endpoint" \o RuleReason[6]]

\* C20: with base "purchase-predictor" and max_length 32, for every
\* timestamp and random suffix, generate_unique_endpoint_name returns a
\* lower-case name of at most 32 characters, and validate_azure_ml_name
\* returns (True, None) for it.
C20_DefaultEndpointNameValid ==
    ( /\ Generated("generate_unique_endpoint_name")
      /\ arg_name = <<"p","u","r","c","h","a","s","e","-","p","r","e","d","i","c","t","o","r">>
      /\ arg_max_length = 32 ) =>
        /\ Len(unique_name) <= 32
        /\ \A i \in 1..Len(unique_name) : unique_name[i] \notin Chars(UpperLetters)
        /\ InGrammar(unique_name)
        /\ naming_pc = "validated" =>
              validation = [is_valid |-> TRUE, error_msg |-> None]

\* C20 witness: the name generated for "purchase-predictor" and 32 holds the
\* base truncated to 15 characters, is 32 characters long and was validated.
C20_Witness ==
    /\ naming_fn = "generate_unique_endpoint_name"
    /\ naming_pc = "validated"
    /\ arg_name = <<"p","u","r","c","h","a","s","e","-","p","r","e","d","i","c","t","o","r">>
    /\ arg_max_length = 32
    /\ unique_name = <<"p","u","r","c","h","a","s","e","-","p","r","e","d","i","c","-","1","1","0","3","-","1","1","3","6","-","a","b","c","1","2","3">>
    /\ validation.is_valid

\* The retry names the claim allows after n retries of a call that began
\* with the name original: original-retry<n>-<seconds> (endpoints) or
\* original-r<n>-<seconds> (deployments) when that is at most 32 characters
\* long, else a fresh name on the base pp-retry or pp-dep-retry.
ClaimedRetryNames(f, original, n) ==
    LET word == IF f = "endpoint" THEN <<"r","e","t","r","y">> ELSE <<"r">>
        modulus == IF f = "endpoint" THEN 10000 ELSE 1000
        derived == {original \o <<"-">> \o word \o Str(n) \o <<"-">> \o Str(t % modulus) : t \in Clock}
        fresh == IF f = "endpoint"
                 THEN {<<"p","p","-","r","e","t","r","y","-">> \o StrftimeEndpoint(now) \o <<"-">> \o Prefix(u, 6) :
                          now \in Moments, u \in Uuids}
                 ELSE {<<"p","p","-","d","e","p","-","r","e","t","r","y","-">> \o StrftimeDeployment(now) \o <<"-">> \o Prefix(u, 4) :
                          now \in Moments, u \in Uuids}
    IN  {d \in derived : Len(d) <= 32} \cup (IF \E d \in derived : Len(d) > 32 THEN fresh ELSE {})

\* C21: the name of each retry is built on the original name of the call,
\* not on the name of the retry before: original_name-suffix when that is at
\* most 32 characters long, else a fresh generated name, so the suffixes of
\* earlier retries never pile up.
C21_RetryNameFromOriginal ==
    (fn \in {"endpoint", "deployment"} /\ generated_name # <<>>) =>
        /\ retry_count >= 1
        /\ generated_name \in ClaimedRetryNames(fn, original_name, retry_count)
        /\ Len(generated_name) <= 32

\* C21 witness: the second retry of an endpoint call named the config
\* original_name-retry2-<seconds>, without the suffix of the first retry.
C21_Witness ==
    /\ fn = "endpoint"
    /\ retry_count = 2
    /\ original_name = <<"p","p","-","1","1","0","3","-","1","1","3","6","-","a","b","c","1","2","3">>
    /\ generated_name = <<"p","p","-","1","1","0","3","-","1","1","3","6","-","a","b","c","1","2","3","-","r","e","t","r","y","2","-","7">>
    /\ config_name = generated_name

\* The positions of the calls of one kind in the trace.
Positions(tag) == {i \in 1..Len(trace) : trace[i] = tag}

\* C27: both retry functions sleep exactly once between two consecutive
\* create attempts and never after the last one: a call that has ended made
\* one sleep fewer than attempts, whether it returned, raised a fatal error
\* or ran out of retries.
C27_OneSleepBetweenAttempts ==
    fn \in {"endpoint", "deployment"} =>
        /\ \A i \in Positions("create"), j \in Positions("create") :
              (i < j /\ ~\E k \in Positions("create") : i < k /\ k < j) =>
                  Cardinality({s \in Positions("sleep") : i < s /\ s < j}) = 1
        /\ Done =>
              /\ \A s \in Positions("sleep") : \E c \in Positions("create") : s < c
              /\ Len(attempts) >= 1 => Count("sleep") = Len(attempts) - 1
              /\ Len(attempts) = 0 => Count("sleep") = 0
        /\ ~Done => Count("sleep") \in {Len(attempts) - 1, Len(attempts)}
        /\ Count("create") = Len(attempts)

\* C27 witness: a deployment call ran out of retries after four attempts
\* and three sleeps.
C27_Witness ==
    /\ fn = "deployment"
    /\ pc = "raised"
    /\ max_retries = 3
    /\ Len(attempts) = 4
    /\ Count("sleep") = 3
    /\ trace[Len(trace)] = "create"

\* C29: the closing raise Exception("Failed to create ... after N attempts")
\* of a retry function is what the call raises exactly when max_retries < 0,
\* and then no create attempt was made; with max_retries >= 0 the statement
\* is never reached and a failing call raises the error of a create call.
C29_GenericErrorOnlyForNegativeBudget ==
    (fn \in {"endpoint", "deployment"} /\ Done) =>
        /\ raised = ExhaustedError <=> max_retries < 0
        /\ max_retries < 0 =>
              /\ pc = "raised"
              /\ attempts = <<>>
              /\ trace = <<>>
        /\ (max_retries >= 0 /\ pc = "raised") =>
              /\ raised.origin = "create"
              /\ raised = CreateError(Len(attempts), attempts[Len(attempts)].msg)

\* C29 witness: a call with max_retries = -1 ended with the generic
\* exception and without a create attempt.
C29_Witness ==
    /\ fn = "endpoint"
    /\ max_retries = -1
    /\ pc = "raised"
    /\ raised = ExhaustedError
    /\ attempts = <<>>

\* C28: a retry function changes no field of the config but its name: the
\* endpoint_name, model and instance settings stay as they were at entry
\* through every retry, every create call is given them unchanged, and the
\* name itself is unchanged when the first attempt succeeds or is fatal.
C28_OnlyNameChanges ==
    /\ [][(fn \in {"endpoint", "deployment"}) => (config_settings' = config_settings)]_vars
    /\ [](fn \in {"endpoint", "deployment"} =>
            /\ config_settings \in EndpointSettings \cup DeploymentSettings
            /\ Len(attempts) = 0 => submitted_settings = NoSettings
            /\ Len(attempts) >= 1 => submitted_settings = config_settings
            /\ (Len(attempts) <= 1 /\ (Done \/ retry_count = 0)) =>
                  config_name = original_name
            /\ (Len(attempts) = 1 /\ Done) => submitted_name = original_name)

\* C28 witness: a deployment call returned on its third attempt, under a new
\* name, and that attempt was given the settings the config still holds.
C28_Witness ==
    /\ fn = "deployment"
    /\ pc = "returned"
    /\ Len(attempts) = 3
    /\ config_name # original_name
    /\ submitted_settings = config_settings
    /\ config_settings.endpoint_name = <<"p","p","-","1","1","0","3","-","1","1","3","6","-","a","b","c","1","2","3","-","r","e","t","r","y","1","-","7">>

\* C24 as stated: the cleanup deletes of create_endpoint_with_cleanup_retry
\* remove only what the call's own failed attempts left behind; an endpoint
\* that was in the workspace under the attempted name before the call, or
\* that a concurrent caller created under it, is never deleted by the call.
C24_CleanupSparesOtherEndpoints ==
    fn = "endpoint" => removed = {}

\* C24 witness: the workspace held an endpoint of the call's name, the first
\* create raised "Endpoint already exists", and the cleanup delete removed
\* that endpoint.
C24_Witness ==
    /\ fn = "endpoint"
    /\ pc = "sleep"
    /\ Len(attempts) = 1
    /\ attempts[1].msg = <<"E","n","d","p","o","i","n","t"," ","a","l","r","e","a","d","y"," ","e","x","i","s","t","s">>
    /\ deleted_name = original_name
    /\ removed = {original_name}
    /\ workspace = {}

\* The operations of the calls made after the creations, in order.
Ops == [i \in 1..Len(calls) |-> calls[i].op]

\* C22: in every deployment script the steps run in the order endpoint
\* creation, deployment creation, traffic assignment, persisting of results:
\* a deployment create is attempted only when endpoint creation has returned
\* a handle, traffic is set only when deployment creation has returned a
\* handle, the results are persisted only after the traffic call, and once
\* endpoint creation has raised the script makes no further call.
C22_StepsInOrder ==
    /\ [](script # "none" =>
            /\ fn = "deployment" => endpoint # NoHandle
            /\ endpoint = NoHandle => deployment = NoHandle
            /\ calls # <<>> => (endpoint # NoHandle /\ deployment # NoHandle)
            /\ \E n \in 0..4 : Ops = SubSeq(<<"traffic", "get", "persist", "invoke">>, 1, n)
            /\ (step = "failed" /\ fn = "endpoint" /\ pc = "raised") =>
                  (endpoint = NoHandle /\ deployment = NoHandle /\ calls = <<>>))
    /\ [][(script # "none" /\ step = "endpoint_create" /\ pc = "raised") =>
             (step' = "failed" /\ fn' = "endpoint" /\ attempts' = attempts)]_vars

\* C22 witness: deploy_aci.py failed at the endpoint, whose second create
\* raised a fatal error, and no deployment create followed.
C22_Witness ==
    /\ script = "deploy_aci"
    /\ step = "failed"
    /\ fn = "endpoint"
    /\ Len(attempts) = 2
    /\ attempts[2].msg = <<"Q","u","o","t","a"," ","e","x","c","e","e","d","e","d">>
    /\ endpoint = NoHandle
    /\ deployment = NoHandle
    /\ calls = <<>>

\* C23: every name submitted to a cloud create call satisfies the naming
\* grammar, for every configured endpoint_name and deployment_name: the name
\* a script submits first (generated, validated once, replaced by an
\* unvalidated fallback name when validation fails) and every name the retry
\* functions generate for a retry.
C23_SubmittedNamesInGrammar ==
    (script # "none" /\ fn \in {"endpoint", "deployment"}) =>
        /\ InGrammar(config_name)
        /\ Len(attempts) >= 1 => InGrammar(submitted_name)

\* C23 witness: deploy.py was configured with the endpoint name "-staging",
\* whose generated name starts with a hyphen; the fallback name was submitted
\* and failed, and the retry name built from it was submitted next.
C23_Witness ==
    /\ script = "deploy"
    /\ configured.endpoint_name = <<"-","s","t","a","g","i","n","g">>
    /\ fn = "endpoint"
    /\ Len(attempts) = 2
    /\ original_name = <<"p","p","-","1","1","0","3","-","1","1","3","6","-","a","b","c","1","2","3">>
    /\ submitted_name = <<"p","p","-","1","1","0","3","-","1","1","3","6","-","a","b","c","1","2","3","-","r","e","t","r","y","1","-","1","2","3","4">>

C26_FollowUpsUseActualNames ==
    script = "deploy" =>
        \A i \in 1..Len(calls) :
            /\ calls[i].endpoint_name = actual.endpoint_name
            /\ calls[i].op \in {"traffic", "persist", "invoke"} =>
                  calls[i].deployment_name = actual.deployment_name

\* C26 witness: deploy.py ran to the end with the default configured names;
\* traffic and details used the actual names, and test_endpoint invoked the
\* configured names, under which nothing was created.
C26_Witness ==
    /\ script = "deploy"
    /\ step = "completed"
    /\ actual.endpoint_name = <<"p","u","r","c","h","a","s","e","-","1","1","0","3","-","1","1","3","6","-","a","b","c","1","2","3">>
    /\ actual.deployment_name = <<"p","u","r","c","h","a","s","e","-","1","1","0","3","1","1","3","6","-","a","b","c","1">>
    /\ calls[1] = Call("traffic", actual.endpoint_name, actual.deployment_name)
    /\ calls[4] = Call("invoke", <<"p","u","r","c","h","a","s","e","-","p","r","e","d","i","c","t","o","r","-","e","n","d","p","o","i","n","t">>,
                       <<"p","u","r","c","h","a","s","e","-","p","r","e","d","i","c","t","o","r","-","d","e","p","l","o","y","m","e","n","t">>)

\* The n most recently created directories of a set (all of them when there
\* are at most n).
MostRecentlyCreated(dirs, n) ==
    {d \in dirs : Cardinality({e \in dirs : e.created > d.created}) < n}

\* C30 as stated: after clean_old_archives(keep_count) the directories that
\* remain under server/archives are exactly the keep_count most recently
\* created ones (all of them when there are at most keep_count), for any mix
\* of timestamp-named archives of deployments and "manual-cleanup-<timestamp>"
\* archives of prepare_fresh_deployment.
C30_KeepsMostRecentlyCreated ==
    last_clean # NoClean =>
        /\ archives = last_clean.after
        /\ last_clean.after = MostRecentlyCreated(last_clean.before, last_clean.keep_count)

\* C30 witness: seven archives were created over four seconds, the second of
\* them by prepare_fresh_deployment; clean_old_archives(5) kept that
\* manual-cleanup archive and removed the third archive created, which is one
\* of the five most recent.
C30_Witness ==
    /\ last_clean.keep_count = DefaultKeepCount
    /\ Cardinality(last_clean.before) = 7
    /\ [name |-> <<"m","a","n","u","a","l","-","c","l","e","a","n","u","p","-","2","0","2","6","-","1","1","-","0","3","_","1","1","-","5","9","-","5","8">>, created |-> 2] \in archives
    /\ [name |-> <<"2","0","2","6","-","1","1","-","0","3","_","1","1","-","5","9","-","5","9">>, created |-> 3] \in last_clean.before \ archives
    /\ [name |-> <<"2","0","2","6","-","1","1","-","0","3","_","1","2","-","0","0","-","0","1">>, created |-> 7] \in archives

====
